---- MODULE Spec2Model ----
(***************************************************************************)
(* Context Resolution Engine of the Aether extension: the strategy         *)
(* executor and context aggregator (content/context.ts), the live update   *)
(* controller, the knowledge store (content/knowledge.ts) and the reveal   *)
(* audit log (content/auditLog.ts over content/knowledgeDb.ts).            *)
(*                                                                         *)
(* A JavaScript string is a sequence of one-character strings, so that     *)
(* trim, toLowerCase and includes are computed, not assumed.               *)
(***************************************************************************)
EXTENDS Integers, Sequences, FiniteSets, TLC

\* ------------------------------------------------------------------------
\* JavaScript values
\* ------------------------------------------------------------------------

\* undefined / null where a string is expected
Undefined == <<"undefined">>

\* JavaScript truthiness of a string-or-undefined value
Truthy(v) == v # Undefined /\ v # <<>>

IsSpace(c) == c = " "

IsDigit(c) == c \in {"0", "1", "2", "3", "4", "5", "6", "7", "8", "9"}

LowerChar(c) ==
    CASE c = "A" -> "a" [] c = "B" -> "b" [] c = "W" -> "w"
      [] c = "K" -> "k" [] c = "U" -> "u"
      [] OTHER -> c

toLowerCase(s) == [i \in 1..Len(s) |-> LowerChar(s[i])]

RECURSIVE trimStart(_)
trimStart(s) == IF s # <<>> /\ IsSpace(Head(s)) THEN trimStart(Tail(s)) ELSE s

RECURSIVE trimEnd(_)
trimEnd(s) ==
    IF s # <<>> /\ IsSpace(s[Len(s)]) THEN trimEnd(SubSeq(s, 1, Len(s) - 1)) ELSE s

trim(s) == trimEnd(trimStart(s))

\* String.prototype.includes
includes(s, sub) ==
    \E i \in 0..(Len(s) - Len(sub)) : SubSeq(s, i + 1, i + Len(sub)) = sub

\* index (0-based) of the first occurrence of sub in s, -1 when absent
indexOf(s, sub) ==
    IF includes(s, sub)
    THEN CHOOSE i \in 0..(Len(s) - Len(sub)) :
            /\ SubSeq(s, i + 1, i + Len(sub)) = sub
            /\ \A j \in 0..(i - 1) : SubSeq(s, j + 1, j + Len(sub)) # sub
    ELSE -1

\* v.replace(/\s+/g, ' ')
RECURSIVE collapseSpaces(_)
collapseSpaces(s) ==
    IF s = <<>> THEN <<>>
    ELSE IF IsSpace(Head(s))
         THEN <<" ">> \o collapseSpaces(trimStart(s))
         ELSE <<Head(s)>> \o collapseSpaces(Tail(s))

\* Array.from(new Set(xs)): first occurrences, in order
RECURSIVE uniq(_)
uniq(xs) ==
    IF xs = <<>> THEN <<>>
    ELSE LET front == uniq(SubSeq(xs, 1, Len(xs) - 1))
             last  == xs[Len(xs)]
         IN IF \E i \in 1..Len(front) : front[i] = last
            THEN front ELSE Append(front, last)

\* ------------------------------------------------------------------------
\* context.ts: normalisation and transforms
\* ------------------------------------------------------------------------

normalize(value) ==
    IF value = Undefined THEN Undefined
    ELSE LET t == toLowerCase(trim(value))
         IN IF t = <<>> THEN Undefined ELSE t

applyTransforms(raw, transform) ==
    LET v == IF raw = Undefined THEN <<>> ELSE raw
    IN CASE transform = "digits" -> SelectSeq(v, IsDigit)
         [] transform = "normalizeAddress" -> collapseSpaces(toLowerCase(trim(v)))
         [] transform = "trimLower" -> toLowerCase(trim(v))
         [] OTHER -> trim(v)

\* confidenceFrom with its first two tests in the other order
confidenceFromCandidatesFirst(ctx) ==
    IF Len(ctx.apartmentKeyCandidates) > 0 THEN "medium"
    ELSE IF Truthy(ctx.bookingId) THEN "high"
    ELSE "low"

\* confidenceFrom without its second test: candidates alone grade as low
confidenceFromWithoutMedium(ctx) ==
    IF Truthy(ctx.bookingId) THEN "high" ELSE "low"

confidenceFrom(ctx) ==
    IF Truthy(ctx.bookingId) THEN "high"
    ELSE IF Len(ctx.apartmentKeyCandidates) > 0 THEN "medium"
    ELSE "low"

\* ------------------------------------------------------------------------
\* The page: window.location and the document
\* ------------------------------------------------------------------------

\* URLSearchParams.get
getParam(page, name) ==
    IF name \in DOMAIN page.search THEN page.search[name] ELSE Undefined

\* the CSS selectors the model knows; any other selector text is a syntax error
SelectorAttr ==
    ("[data-booking-id]" :> "data-booking-id") @@
    ("[data-reservation-id]" :> "data-reservation-id") @@
    ("[data-unit-id]" :> "data-unit-id") @@
    ("[data-unit-name]" :> "data-unit-name") @@
    ("[data-address]" :> "data-address") @@
    ("[data-ref]" :> "data-ref")

SelectorClass ==
    (".unit-name" :> "unit-name") @@ (".address" :> "address")

validSelector(sel) == sel \in (DOMAIN SelectorAttr) \cup (DOMAIN SelectorClass)

\* an attribute an element does not carry maps to Undefined
AttrNames ==
    {"data-booking-id", "data-reservation-id", "data-unit-id", "data-unit-name",
     "data-address", "data-ref"}

NoAttrs == [a \in AttrNames |-> Undefined]

NoJson == [parses |-> FALSE, bookingId |-> Undefined, reservationId |-> Undefined,
           id |-> Undefined]

matches(el, sel) ==
    IF sel \in DOMAIN SelectorAttr
    THEN el.attrs[SelectorAttr[sel]] # Undefined
    ELSE SelectorClass[sel] \in el.classes

NoElement ==
    [tag |-> "none", attrs |-> NoAttrs, classes |-> {}, text |-> Undefined,
     json |-> NoJson]

\* document.querySelector for a valid selector: first match in document order
querySelector(dom, sel) ==
    IF \E i \in 1..Len(dom) : matches(dom[i], sel)
    THEN dom[CHOOSE i \in 1..Len(dom) :
                /\ matches(dom[i], sel)
                /\ \A j \in 1..(i - 1) : ~matches(dom[j], sel)]
    ELSE NoElement

\* el?.getAttribute(name)
getAttribute(el, name) ==
    IF name \in DOMAIN el.attrs THEN el.attrs[name] ELSE Undefined

\* the regular expressions the model knows, each of the shape /<prefix>(.+)/;
\* any other non-empty regex text makes new RegExp throw
RegexPrefix == ("R:(.+)" :> <<"R", ":">>)

validRegex(re) == re \in DOMAIN RegexPrefix

\* t.match(regex)[1], Undefined when there is no match
matchGroup1(t, re) ==
    LET pre == RegexPrefix[re]
        at  == indexOf(t, pre)
    IN IF at < 0 \/ at + Len(pre) >= Len(t) THEN Undefined
       ELSE SubSeq(t, at + Len(pre) + 1, Len(t))

\* a || b || ... : the first truthy value
firstTruthy(vals) ==
    IF \E i \in 1..Len(vals) : Truthy(vals[i])
    THEN vals[CHOOSE i \in 1..Len(vals) :
                 Truthy(vals[i]) /\ \A j \in 1..(i - 1) : ~Truthy(vals[j])]
    ELSE Undefined

\* ------------------------------------------------------------------------
\* Strategies: what one strategy call produces on a page
\* ------------------------------------------------------------------------

Miss ==
    [status |-> "null", bookingId |-> Undefined,
     apartmentKeyCandidates |-> <<>>, evidence |-> <<>>]

Thrown ==
    [status |-> "throw", bookingId |-> Undefined,
     apartmentKeyCandidates |-> <<>>, evidence |-> <<>>]

Hit(b, c, e) ==
    [status |-> "ok", bookingId |-> b, apartmentKeyCandidates |-> c, evidence |-> e]

\* { [strat.field]: field === 'bookingId' ? processed : [processed], evidence }
HitFor(field, processed, tag) ==
    IF field = "bookingId" THEN Hit(processed, <<>>, <<tag>>)
    ELSE Hit(Undefined, <<processed>>, <<tag>>)

\* elements under body whose textContent includes the label
labelTexts(dom, label) ==
    LET body  == SelectSeq(dom, LAMBDA el : el.tag # "script")
        texts == [i \in 1..Len(body) |->
                    IF body[i].text = Undefined THEN <<>> ELSE body[i].text]
    IN SelectSeq(texts, LAMBDA t : includes(t, label))

\* one closure of strategyFromConfig, run on the page
configStrategy(strat, page) ==
    CASE strat.type = "urlParam" ->
            LET val == getParam(page, strat.selector)
            IN IF ~Truthy(val) THEN Miss
               ELSE HitFor(strat.field, applyTransforms(val, strat.transform),
                           <<"urlParam", strat.selector>>)
      [] strat.type = "attribute" ->
            IF strat.selector # "" /\ ~validSelector(strat.selector) THEN Thrown
            ELSE LET el  == IF strat.selector # ""
                            THEN querySelector(page.dom, strat.selector)
                            ELSE NoElement
                     val == getAttribute(el, strat.attribute)
                 IN IF ~Truthy(val) THEN Miss
                    ELSE HitFor(strat.field, applyTransforms(val, strat.transform),
                                <<"attr", strat.selector, strat.attribute>>)
      [] strat.type = "selectorText" ->
            IF strat.selector # "" /\ ~validSelector(strat.selector) THEN Thrown
            ELSE LET el   == IF strat.selector # ""
                             THEN querySelector(page.dom, strat.selector)
                             ELSE NoElement
                     text == IF el.text = Undefined THEN Undefined ELSE trim(el.text)
                 IN IF ~Truthy(text) THEN Miss
                    ELSE HitFor(strat.field, applyTransforms(text, strat.transform),
                                <<"selectorText", strat.selector>>)
      [] strat.type = "labelRegex" ->
            IF strat.regex = "" THEN Miss
            ELSE IF ~validRegex(strat.regex) THEN Thrown
            ELSE LET texts == labelTexts(page.dom, strat.label)
                     hits  == SelectSeq(texts,
                                 LAMBDA t : Truthy(matchGroup1(t, strat.regex)))
                 IN IF hits = <<>> THEN Miss
                    ELSE HitFor(strat.field,
                                applyTransforms(matchGroup1(hits[1], strat.regex),
                                                strat.transform),
                                <<"labelRegex", strat.label>>)
      [] OTHER -> Miss

strategyFromConfig(cfg, page) ==
    [i \in 1..Len(cfg.strategies) |-> configStrategy(cfg.strategies[i], page)]

\* ------------------------------------------------------------------------
\* Built-in heuristic strategies
\* ------------------------------------------------------------------------

CONDUIT_HOST_SNIPPETS ==
    <<<<"c", "o", "n", "d", "u", "i", "t", ".", "a", "i">>,
      <<"a", "p", "p", ".", "c", "o", "n", "d", "u", "i", "t", ".", "a", "i">>>>

sConduit == <<"c", "o", "n", "d", "u", "i", "t">>

sUnknown == <<"u", "n", "k", "n", "o", "w", "n">>

sPinned == <<"p", "i", "n", "n", "e", "d">>

\* the noun tokens a path segment must follow to count as an id
PathNouns ==
    {<<"b", "o", "o", "k", "i", "n", "g">>,
     <<"b", "o", "o", "k", "i", "n", "g", "s">>,
     <<"r", "e", "s", "e", "r", "v", "a", "t", "i", "o", "n">>,
     <<"r", "e", "s", "e", "r", "v", "a", "t", "i", "o", "n", "s">>,
     <<"u", "n", "i", "t">>,
     <<"u", "n", "i", "t", "s">>,
     <<"a", "p", "a", "r", "t", "m", "e", "n", "t">>,
     <<"a", "p", "a", "r", "t", "m", "e", "n", "t", "s">>,
     <<"l", "i", "s", "t", "i", "n", "g">>,
     <<"l", "i", "s", "t", "i", "n", "g", "s">>}

\* query parameters bookingId || reservationId || booking || res
queryParamStrategy(page) ==
    LET bookingId == firstTruthy(<<getParam(page, "bookingId"),
                                   getParam(page, "reservationId"),
                                   getParam(page, "booking"),
                                   getParam(page, "res")>>)
    IN IF Truthy(bookingId)
       THEN Hit(bookingId, <<>>, <<<<"matched query param">>>>)
       ELSE Miss

\* data-booking-id, data-reservation-id, data-unit-id, in this order
dataAttrStrategy(page) ==
    LET attrs == <<"data-booking-id", "data-reservation-id", "data-unit-id">>
        sels  == <<"[data-booking-id]", "[data-reservation-id]", "[data-unit-id]">>
        vals  == [i \in 1..3 |->
                    getAttribute(querySelector(page.dom, sels[i]), attrs[i])]
    IN IF \E i \in 1..3 : Truthy(vals[i])
       THEN LET k == CHOOSE i \in 1..3 :
                        Truthy(vals[i]) /\ \A j \in 1..(i - 1) : ~Truthy(vals[j])
            IN Hit(vals[k], <<>>, <<<<attrs[k]>>>>)
       ELSE Miss

\* script[type=application/json], script[type=application/ld+json]
embeddedJsonStrategy(page) ==
    LET scripts == SelectSeq(page.dom, LAMBDA el : el.tag = "script")
        cand(el) == IF el.json.parses
                    THEN firstTruthy(<<el.json.bookingId, el.json.reservationId,
                                       el.json.id>>)
                    ELSE Undefined
        good    == SelectSeq(scripts,
                             LAMBDA el : Truthy(cand(el)) /\ trim(cand(el)) # <<>>)
    IN IF good = <<>> THEN Miss
       ELSE Hit(cand(good[1]), <<>>, <<<<"embedded JSON">>>>)

\* text of [data-unit-name], [data-address], .unit-name, .address
textCandidateStrategy(page) ==
    LET labelLookups == <<"[data-unit-name]", "[data-address]", ".unit-name", ".address">>
        texts == [i \in 1..4 |-> querySelector(page.dom, labelLookups[i]).text]
        candidates == SelectSeq(texts, LAMBDA t : Truthy(t) /\ Len(trim(t)) > 3)
    IN IF candidates # <<>>
       THEN Hit(Undefined, candidates, <<<<"text candidates">>>>)
       ELSE Miss

\* the first path segment that follows a noun token
urlSegmentStrategy(page) ==
    LET segments == page.pathname
        isId(idx) == idx > 1 /\ toLowerCase(segments[idx - 1]) \in PathNouns
    IN IF \E idx \in 1..Len(segments) : isId(idx)
       THEN Hit(segments[CHOOSE idx \in 1..Len(segments) :
                            isId(idx) /\ \A j \in 1..(idx - 1) : ~isId(j)],
                <<>>, <<<<"url segment">>>>)
       ELSE Miss

conduitStrategies(page) ==
    <<queryParamStrategy(page), dataAttrStrategy(page), embeddedJsonStrategy(page),
      textCandidateStrategy(page), urlSegmentStrategy(page)>>

\* ------------------------------------------------------------------------
\* Strategy executor
\* ------------------------------------------------------------------------

EmptyAcc == [bookingId |-> Undefined, apartmentKeyCandidates |-> <<>>, evidence |-> <<>>]

\* mergeCandidates without the Set: blanks dropped, duplicates kept
mergeCandidatesKeepingDuplicates(accCands, resCands) ==
    LET merged == accCands \o resCands
        normed == [i \in 1..Len(merged) |-> normalize(merged[i])]
    IN SelectSeq(normed, LAMBDA n : Truthy(n))

\* the candidates of acc and result, normalised, blanks dropped, de-duplicated
mergeCandidates(accCands, resCands) ==
    LET merged == accCands \o resCands
        normed == [i \in 1..Len(merged) |-> normalize(merged[i])]
    IN uniq(SelectSeq(normed, LAMBDA n : Truthy(n)))

\* mergeResult without its test of acc.bookingId: a later bookingId replaces
\* the earlier one
mergeResultLastWins(acc, result) ==
    [bookingId |->
        IF Truthy(result.bookingId)
        THEN normalize(result.bookingId) ELSE acc.bookingId,
     apartmentKeyCandidates |->
        IF Len(result.apartmentKeyCandidates) > 0
        THEN mergeCandidates(acc.apartmentKeyCandidates, result.apartmentKeyCandidates)
        ELSE acc.apartmentKeyCandidates,
     evidence |->
        IF Len(result.evidence) > 0 THEN acc.evidence \o result.evidence
        ELSE acc.evidence]

\* mergeResult keeping the evidence only of a result that changed the
\* aggregate's bookingId or candidates
mergeResultEvidenceOfAdopted(acc, result) ==
    [bookingId |->
        IF Truthy(result.bookingId) /\ ~Truthy(acc.bookingId)
        THEN normalize(result.bookingId) ELSE acc.bookingId,
     apartmentKeyCandidates |->
        IF Len(result.apartmentKeyCandidates) > 0
        THEN mergeCandidates(acc.apartmentKeyCandidates, result.apartmentKeyCandidates)
        ELSE acc.apartmentKeyCandidates,
     evidence |->
        IF /\ Len(result.evidence) > 0
           /\ \/ Truthy(result.bookingId) /\ ~Truthy(acc.bookingId)
              \/ Len(result.apartmentKeyCandidates) > 0
        THEN acc.evidence \o result.evidence
        ELSE acc.evidence]

\* the body of the loop of runStrategies for a non-null result
mergeResult(acc, result) ==
    [bookingId |->
        IF Truthy(result.bookingId) /\ ~Truthy(acc.bookingId)
        THEN normalize(result.bookingId) ELSE acc.bookingId,
     apartmentKeyCandidates |->
        IF Len(result.apartmentKeyCandidates) > 0
        THEN mergeCandidates(acc.apartmentKeyCandidates, result.apartmentKeyCandidates)
        ELSE acc.apartmentKeyCandidates,
     evidence |->
        IF Len(result.evidence) > 0 THEN acc.evidence \o result.evidence
        ELSE acc.evidence]

\* runStrategies over the outcomes of the strategies, in order; a strategy
\* that throws ends the loop and the exception leaves runStrategies
RECURSIVE runFrom(_, _, _)
runFrom(outcomes, i, acc) ==
    IF i > Len(outcomes) THEN [threw |-> FALSE, acc |-> acc]
    ELSE IF outcomes[i].status = "throw" THEN [threw |-> TRUE, acc |-> acc]
    ELSE IF outcomes[i].status = "null" THEN runFrom(outcomes, i + 1, acc)
    ELSE runFrom(outcomes, i + 1, mergeResult(acc, outcomes[i]))

runStrategies(outcomes) == runFrom(outcomes, 1, EmptyAcc)

\* ------------------------------------------------------------------------
\* Context aggregator
\* ------------------------------------------------------------------------

\* pickConfig without its hostMatch step: app id, then the first config
pickConfigWithoutHosts(resolverConfigs, hostname) ==
    LET n == Len(resolverConfigs)
        appOk(i)  == includes(hostname, resolverConfigs[i].app)
    IN IF \E i \in 1..n : appOk(i)
       THEN CHOOSE i \in 1..n : appOk(i) /\ \A j \in 1..(i - 1) : ~appOk(j)
       ELSE IF n > 0 THEN 1 ELSE 0

\* index in resolverConfigs of the config pickConfig returns, 0 for undefined
pickConfig(resolverConfigs, hostname) ==
    LET n == Len(resolverConfigs)
        hostOk(i) == \E h \in 1..Len(resolverConfigs[i].hosts) :
                        includes(hostname, resolverConfigs[i].hosts[h])
        appOk(i)  == includes(hostname, resolverConfigs[i].app)
    IN IF \E i \in 1..n : hostOk(i)
       THEN CHOOSE i \in 1..n : hostOk(i) /\ \A j \in 1..(i - 1) : ~hostOk(j)
       ELSE IF \E i \in 1..n : appOk(i)
       THEN CHOOSE i \in 1..n : appOk(i) /\ \A j \in 1..(i - 1) : ~appOk(j)
       ELSE IF n > 0 THEN 1 ELSE 0

isConduitHost(hostname) ==
    \E i \in 1..Len(CONDUIT_HOST_SNIPPETS) : includes(hostname, CONDUIT_HOST_SNIPPETS[i])

\* evidence.join('; ') || undefined ; the joined text is kept as its parts
joinEvidence(evidence) == evidence

withLegacy(ctx, reason) ==
    [app |-> ctx.app,
     bookingId |-> ctx.bookingId,
     apartmentKeyCandidates |-> ctx.apartmentKeyCandidates,
     confidence |-> ctx.confidence,
     evidence |-> ctx.evidence,
     key |-> IF Truthy(ctx.bookingId) THEN ctx.bookingId
             ELSE IF Len(ctx.apartmentKeyCandidates) > 0
                  THEN ctx.apartmentKeyCandidates[1] ELSE Undefined,
     reason |-> reason]

\* does the rule's requires list hold of the aggregate
ruleSatisfied(rule, aggregate) ==
    LET okBooking == IF "bookingId" \in rule.requires
                     THEN Truthy(aggregate.bookingId) ELSE TRUE
        okApts    == IF "apartmentKeyCandidates" \in rule.requires
                     THEN Len(aggregate.apartmentKeyCandidates) > 0 ELSE TRUE
    IN okBooking /\ okApts

\* the confidenceRules loop without its break: the last satisfied rule wins
applyConfidenceRulesLastWins(rules, aggregate, default) ==
    IF \E i \in 1..Len(rules) : ruleSatisfied(rules[i], aggregate)
    THEN rules[CHOOSE i \in 1..Len(rules) :
                  /\ ruleSatisfied(rules[i], aggregate)
                  /\ \A j \in (i + 1)..Len(rules) : ~ruleSatisfied(rules[j], aggregate)].confidence
    ELSE default

\* the confidence after the confidenceRules loop of detectNow
applyConfidenceRules(rules, aggregate, default) ==
    IF \E i \in 1..Len(rules) : ruleSatisfied(rules[i], aggregate)
    THEN rules[CHOOSE i \in 1..Len(rules) :
                  /\ ruleSatisfied(rules[i], aggregate)
                  /\ \A j \in 1..(i - 1) : ~ruleSatisfied(rules[j], aggregate)].confidence
    ELSE default

\* detectNow pushing the built-in strategies before those of the config
strategiesForBuiltinsFirst(resolverConfigs, c, page) ==
    SubSeq(conduitStrategies(page), 1,
           IF isConduitHost(page.hostname) THEN 5 ELSE 2)
        \o (IF c > 0 THEN strategyFromConfig(resolverConfigs[c], page) ELSE <<>>)

\* the outcomes of the strategies detectNow assembles, in execution order;
\* c is what pickConfig returned. All five built-in strategies run on a
\* Conduit host, conduitStrategies().slice(0, 2) elsewhere
strategiesFor(resolverConfigs, c, page) ==
    (IF c > 0 THEN strategyFromConfig(resolverConfigs[c], page) ELSE <<>>)
        \o SubSeq(conduitStrategies(page), 1,
                  IF isConduitHost(page.hostname) THEN 5 ELSE 2)

NoContext ==
    [app |-> Undefined, bookingId |-> Undefined, apartmentKeyCandidates |-> <<>>,
     confidence |-> "none", evidence |-> <<>>, key |-> Undefined, reason |-> <<>>]

\* detectNow from "const aggregate = runStrategies(strategies)" on: c is what
\* pickConfig returned, run is what runStrategies did; threw is TRUE when a
\* strategy's exception escaped it
aggregateContext(resolverConfigs, c, hostname, run) ==
    LET aggregate == run.acc
        confidence ==
            IF c > 0
            THEN applyConfidenceRules(resolverConfigs[c].confidenceRules,
                                      aggregate, confidenceFrom(aggregate))
            ELSE confidenceFrom(aggregate)
        app == IF c > 0 /\ Truthy(resolverConfigs[c].app) THEN resolverConfigs[c].app
               ELSE IF isConduitHost(hostname) THEN sConduit ELSE sUnknown
    IN IF run.threw THEN [threw |-> TRUE, ctx |-> NoContext]
       ELSE [threw |-> FALSE,
             ctx |-> withLegacy([app |-> app,
                                 bookingId |-> aggregate.bookingId,
                                 apartmentKeyCandidates |-> aggregate.apartmentKeyCandidates,
                                 confidence |-> confidence,
                                 evidence |-> aggregate.evidence],
                                joinEvidence(aggregate.evidence))]

\* detectNow once pickConfig has returned c
detectWithConfig(resolverConfigs, c, page) ==
    aggregateContext(resolverConfigs, c, page.hostname,
                     runStrategies(strategiesFor(resolverConfigs, c, page)))

\* detectNow below its pinned check
detectAuto(resolverConfigs, page) ==
    detectWithConfig(resolverConfigs, pickConfig(resolverConfigs, page.hostname), page)

\* detectNow without its first line: the pin is not consulted
detectNowIgnoringPin(pin, resolverConfigs, page) == detectAuto(resolverConfigs, page)

\* detectNow; pin is <<>> for null and <<ctx>> for a pinned context
detectNow(pin, resolverConfigs, page) ==
    IF pin # <<>> THEN [threw |-> FALSE, ctx |-> withLegacy(pin[1], <<<<"pinned">>>>)]
    ELSE detectAuto(resolverConfigs, page)

\* ------------------------------------------------------------------------
\* The pages, configuration documents and pin requests the model explores
\* ------------------------------------------------------------------------

ParamNames == {"bookingId", "reservationId", "booking", "res", "ref"}

NoParams == [n \in ParamNames |-> Undefined]

Div(attrs, classes, text) ==
    [tag |-> "div", attrs |-> attrs, classes |-> classes, text |-> text, json |-> NoJson]

Script(json) ==
    [tag |-> "script", attrs |-> NoAttrs, classes |-> {}, text |-> <<>>, json |-> json]

Hosts == {<<"a", "p", "p", ".", "c", "o", "n", "d", "u", "i", "t", ".", "a", "i">>, <<"b", ".", "i", "o">>}

Urls ==
    {[search |-> NoParams, pathname |-> <<>>],
     [search |-> [NoParams EXCEPT !["bookingId"] = <<"W", "B", "1", "2">>], pathname |-> <<>>],
     [search |-> [NoParams EXCEPT !["res"] = <<" ", " ">>, !["ref"] = <<" ", "K", "1", " ">>],
      pathname |-> <<<<"B", "o", "o", "k", "i", "n", "g">>, <<"K", "1">>>>]}

Doms ==
    {<<>>,
     <<Div([NoAttrs EXCEPT !["data-unit-name"] = <<"u">>], {}, <<"W", "e", "s", "t", " ", "1", "2">>),
       Div(NoAttrs, {"address"}, <<"w", "e", "s", "t", " ", " ", "1", "2", " ">>),
       Script(NoJson),
       Script([parses |-> TRUE, bookingId |-> Undefined, reservationId |-> Undefined,
               id |-> <<"K", "1">>])>>,
     <<Div([NoAttrs EXCEPT !["data-ref"] = <<"a", "1", "b", "2">>, !["data-unit-id"] = <<"U", "7">>],
           {"address"}, <<"R", ":", "w", "b", "1", "2">>)>>}

Strat(type, selector, attribute, label, regex, field, transform) ==
    [type |-> type, selector |-> selector, attribute |-> attribute, label |-> label,
     regex |-> regex, field |-> field, transform |-> transform]

GoodStrategies ==
    <<Strat("urlParam", "ref", "", <<>>, "", "bookingId", "trimLower"),
      Strat("selectorText", ".address", "", <<>>, "", "apartmentKeyCandidates",
            "normalizeAddress"),
      Strat("attribute", "[data-ref]", "data-ref", <<>>, "", "apartmentKeyCandidates",
            "digits"),
      Strat("labelRegex", "", "", <<"R">>, "R:(.+)", "bookingId", "raw")>>

CfgBasic ==
    [app |-> <<"c", "o", "n", "d", "u", "i", "t">>, hosts |-> <<<<"b", ".", "i", "o">>>>,
     strategies |-> GoodStrategies, confidenceRules |-> <<>>]

CfgRules ==
    [app |-> <<"r", "u", "l", "e", "s">>, hosts |-> <<>>,
     strategies |-> GoodStrategies,
     confidenceRules |->
        <<[requires |-> {"bookingId", "apartmentKeyCandidates"}, confidence |-> "high"],
          [requires |-> {"bookingId"}, confidence |-> "medium"],
          [requires |-> {"apartmentKeyCandidates"}, confidence |-> "low"]>>]

CfgBadSelector ==
    [app |-> <<"a", "p", "p">>, hosts |-> <<>>,
     strategies |->
        <<Strat("urlParam", "bookingId", "", <<>>, "", "bookingId", "trimLower"),
          Strat("attribute", "div[", "id", <<>>, "", "bookingId", "raw")>>,
     confidenceRules |-> <<>>]

CfgBadRegex ==
    [app |-> <<"c", "o", "n", "d", "u", "i", "t">>, hosts |-> <<>>,
     strategies |->
        <<Strat("labelRegex", "", "", <<>>, "(", "bookingId", "raw")>>,
     confidenceRules |-> <<>>]

ConfigDocs ==
    {<<>>, <<CfgRules>>, <<CfgBadSelector, CfgBasic>>, <<CfgRules, CfgBadRegex>>}

\* the (key, reason) pairs the UI layer pins
PinRequests ==
    {<<<<"w", "b", "1", "2">>, "pinned by agent">>, <<<<"K", "1">>, "manual">>}

\* number of subscribers the model lets the UI layer register
NumListeners == 1

ListenerIds == 1..NumListeners

\* ------------------------------------------------------------------------
\* State
\* ------------------------------------------------------------------------

VARIABLES
    \* context.ts (live update controller)
    page,             \* window.location and document: hostname, search, pathname, dom
    resolverConfigs,  \* let resolverConfigs
    pinned,           \* let pinned: <<>> for null, <<ctx>> when pinned
    current,          \* let current, what detectContext() returns
    listeners,        \* const listeners
    moPending,        \* a DOM mutation is recorded, the observer callback has not run
    called,           \* the listeners the last operation invoked
    lastOp,           \* the last operation and whether an exception left it
    held,             \* a reference a reader kept: <<>> for none, else whether it
                      \* still is the object current refers to, the value read
                      \* through it then and the value read through it now
    \* knowledge.ts (knowledge store) over knowledgeDb.ts
    records,          \* KnowledgeStore.records
    fuse,             \* the record list KnowledgeStore.fuse was built from
    initPc,           \* where the constructor's init() stands
    db,               \* the persisted records table
    writes,           \* replaceAllRecords calls in flight, oldest first
    storeOut,         \* what the last store operation returned or delivered
    initialized,      \* KnowledgeStore.initialized
    reads,            \* how many times init() has called loadAllRecords()
    overlapped,       \* the last loadPack was called while the write of an
                      \* earlier loadPack was in flight
    \* auditLog.ts over knowledgeDb.ts
    cache,            \* const cache
    hydrated,         \* let hydrated
    auditDb,          \* the persisted audit table
    clock,            \* the wall clock read by new Date()
    calls,            \* the getLastReveal / logReveal calls in flight
    scans,            \* how many times loadAuditLatest was called
    audited,          \* per key: the last resolved results of logReveal and getLastReveal
    \* capture.ts (inline trigger) over the background's SEARCH_QUERY handler
    editor,           \* the text before the cursor of the focused field
    debounceTimer,    \* let debounceTimer: a timeout is pending
    sent,             \* the queries of the SEARCH_QUERY messages sent, oldest first
    inflight,         \* the positions in sent whose response has not arrived
    overlay,          \* the suggestion overlay: <<>> hidden, <<results>> shown
    captureOut,       \* what the last step of the trigger did
    \* Palette.tsx over paletteUtils.ts and auditLog.ts
    highlight,        \* const [highlight]: the position of the active record
    revealed,         \* const [revealed]: the field values whose entry is true
    lastReveals,      \* const [lastReveals], per recordId:fieldKey, 0 for none
    effectDue,        \* the loadReveals effect is scheduled and has not run
    cancelled,        \* the getLastReveal calls of effects already cleaned up
    rendered,         \* the field rows on screen: key and displayed value
    \* the subscribers of context.ts as notify visits them
    order,            \* the listeners in the order listeners.forEach visits them
    delivered,        \* per subscriber the last context its callback was given
    reentered,        \* a callback of the last operation called back into the module
    \* background.ts: the placeholder history in chrome.storage.local
    stored,           \* per storage key the value stored, <<>> for none
    saves,            \* the saveToPlaceholderHistory calls in flight
    historyOut        \* what the last history step did

ctxVars == <<page, resolverConfigs, pinned, current, listeners, moPending, called,
             lastOp, held>>

storeVars == <<records, fuse, initPc, db, writes, storeOut, initialized, reads,
               overlapped>>

auditVars == <<cache, hydrated, auditDb, clock, calls, scans, audited>>

captureVars == <<editor, debounceTimer, sent, inflight, overlay, captureOut>>

paletteVars == <<highlight, revealed, lastReveals, effectDue, cancelled, rendered>>

subscriberVars == <<order, delivered, reentered>>

historyVars == <<stored, saves, historyOut>>

uiVars == <<captureVars, paletteVars, subscriberVars, historyVars>>

vars == <<ctxVars, storeVars, auditVars, uiVars>>

\* ------------------------------------------------------------------------
\* Live update controller
\* ------------------------------------------------------------------------

Op(name, threw) == [op |-> name, threw |-> threw]

\* module load: resolverConfigs = [], current = detectNow(), startObservers()
InitCtx ==
    /\ page \in {[hostname |-> h, search |-> u.search, pathname |-> u.pathname,
                  dom |-> d] : h \in Hosts, u \in Urls, d \in Doms}
    /\ resolverConfigs = <<>>
    /\ pinned = <<>>
    /\ current = detectNow(<<>>, <<>>, page).ctx
    /\ listeners = {}
    /\ moPending = FALSE
    /\ called = {}
    /\ lastOp = Op("load", FALSE)
    /\ held = <<>>

\* the object a kept reference points to once current names another object
Released(h) == IF h = <<>> THEN <<>> ELSE <<[h[1] EXCEPT !.alias = FALSE]>>

\* notify writing the fields of newCtx into the object current refers to
NotifyInPlace(name, newCtx) ==
    /\ current' = newCtx
    /\ called' = listeners
    /\ lastOp' = Op(name, FALSE)
    /\ held' = IF held # <<>> /\ held[1].alias
               THEN <<[held[1] EXCEPT !.now = newCtx]>> ELSE held

\* notify(newCtx), as the last call of an operation named name: current is
\* bound to the object newCtx, a fresh one from withLegacy; the object it was
\* bound to is left as it is
Notify(name, newCtx) ==
    /\ current' = newCtx
    /\ called' = listeners
    /\ lastOp' = Op(name, FALSE)
    /\ held' = Released(held)

\* an exception leaves the operation before it reaches notify
Throw(name) ==
    /\ current' = current
    /\ called' = {}
    /\ lastOp' = Op(name, TRUE)
    /\ held' = held

\* notify(detectNow()): next is what detectNow did
NotifyDetected(name, next) ==
    IF next.threw THEN Throw(name) ELSE Notify(name, next.ctx)

\* the body of update: next is what detectNow did
NotifyIfChanged(name, next) ==
    IF next.threw THEN Throw(name)
    ELSE IF next.ctx.key # current.key \/ next.ctx.confidence # current.confidence
    THEN Notify(name, next.ctx)
    ELSE /\ current' = current
         /\ called' = {}
         /\ lastOp' = Op(name, FALSE)
         /\ held' = held

\* update without its test of changed: every trigger publishes
UpdateAlwaysNotifies(name, newPage) ==
    NotifyDetected(name, detectNow(pinned, resolverConfigs, newPage))

\* the closure update of startObservers, run on the page newPage
Update(name, newPage) ==
    NotifyIfChanged(name, detectNow(pinned, resolverConfigs, newPage))

\* history.pushState / history.replaceState as wrapped by wrapHistory, and the
\* popstate listener: the URL changes within the origin, then update() runs
Navigate(u) ==
    /\ page' = [page EXCEPT !.search = u.search, !.pathname = u.pathname]
    /\ Update("navigate", page')
    /\ UNCHANGED <<resolverConfigs, pinned, listeners, moPending>>

\* the hashchange listener: only the fragment changed
HashChange ==
    /\ Update("hashchange", page)
    /\ UNCHANGED <<page, resolverConfigs, pinned, listeners, moPending>>

\* a page script changes the document; the MutationObserver records it
MutateDom(d) ==
    /\ d # page.dom
    /\ page' = [page EXCEPT !.dom = d]
    /\ moPending' = TRUE
    /\ lastOp' = Op("mutate", FALSE)
    /\ called' = {}
    /\ UNCHANGED <<resolverConfigs, pinned, current, listeners, held>>

\* the MutationObserver callback
MutationCallback ==
    /\ moPending
    /\ moPending' = FALSE
    /\ Update("mutation", page)
    /\ UNCHANGED <<page, resolverConfigs, pinned, listeners>>

\* chrome.storage.local.get callback and chrome.storage.onChanged listener
ConfigChange(cfgs) ==
    /\ resolverConfigs' = cfgs
    /\ NotifyDetected("config", detectNow(pinned, cfgs, page))
    /\ UNCHANGED <<page, pinned, listeners, moPending>>

setPinnedContext(key, reason) ==
    LET pin == [app |-> sPinned, bookingId |-> key, apartmentKeyCandidates |-> <<key>>,
                confidence |-> "high", evidence |-> <<<<"reason", reason>>>>]
    IN /\ pinned' = <<pin>>
       /\ Notify("setPinned", withLegacy(pin, <<<<"reason", reason>>>>))
       /\ UNCHANGED <<page, resolverConfigs, listeners, moPending>>

\* clearPinnedContext going through update(): published only on a changed key
\* or confidence
clearPinnedThroughUpdate ==
    /\ pinned' = <<>>
    /\ NotifyIfChanged("clearPinned", detectNow(<<>>, resolverConfigs, page))
    /\ UNCHANGED <<page, resolverConfigs, listeners, moPending>>

clearPinnedContext ==
    /\ pinned' = <<>>
    /\ NotifyDetected("clearPinned", detectNow(<<>>, resolverConfigs, page))
    /\ UNCHANGED <<page, resolverConfigs, listeners, moPending>>

\* subscribeContext without its call of the listener
subscribeContextSilent(l) ==
    /\ listeners' = listeners \cup {l}
    /\ called' = {}
    /\ lastOp' = Op("subscribe", FALSE)
    /\ UNCHANGED <<page, resolverConfigs, pinned, current, moPending, held>>

\* listeners.add(listener); listener(current); the Set holds a listener once
subscribeContext(l) ==
    /\ listeners' = listeners \cup {l}
    /\ called' = {l}
    /\ lastOp' = Op("subscribe", FALSE)
    /\ UNCHANGED <<page, resolverConfigs, pinned, current, moPending, held>>

\* the handle subscribeContext returned
unsubscribe(l) ==
    /\ l \in listeners
    /\ listeners' = listeners \ {l}
    /\ called' = {}
    /\ lastOp' = Op("unsubscribe", FALSE)
    /\ UNCHANGED <<page, resolverConfigs, pinned, current, moPending, held>>

\* detectContext(): the caller keeps the object current refers to
detectContext ==
    /\ held' = <<[alias |-> TRUE, seen |-> current, now |-> current]>>
    /\ called' = {}
    /\ lastOp' = Op("detectContext", FALSE)
    /\ UNCHANGED <<page, resolverConfigs, pinned, current, listeners, moPending>>

\* a listener the last operation called keeps its argument: notify and
\* subscribeContext pass the object current refers to
Retain(l) ==
    /\ l \in called
    /\ held' = <<[alias |-> TRUE, seen |-> current, now |-> current]>>
    /\ called' = {}
    /\ lastOp' = Op("retain", FALSE)
    /\ UNCHANGED <<page, resolverConfigs, pinned, current, listeners, moPending>>

\* ------------------------------------------------------------------------
\* Knowledge store
\* ------------------------------------------------------------------------

\* A record is [recordId, title, keys]; recordId is the rank of the id string
\* in IndexedDB key order, which is the order getAll() returns.

\* knowledgeSeed: 'apt-sds46' (rank 2) listed before 'apt-nyc-wb12' (rank 1)
knowledgeSeed ==
    <<[recordId |-> 2, title |-> <<"S", "i", "m", "o", "n", "-", "D", "a", "c", "h", "-", "S", "t", "r", " ", "4", "6">>,
       keys |-> <<<<"s", "i", "m", "o", "n", " ", "d", "a", "c", "h", " ", "4", "6">>, <<"s", "d", "s", "4", "6">>, <<"b", "e", "r", "l", "i", "n", " ", "a", "p", "t">>, <<"l", "i", "s", "t", "i", "n", "g", "-", "2", "3", "4", "5">>>>],
      [recordId |-> 1, title |-> <<"W", "e", "s", "t", " ", "B", "r", "o", "a", "d", "w", "a", "y", " ", "1", "2">>,
       keys |-> <<<<"w", "e", "s", "t", " ", "b", "r", "o", "a", "d", "w", "a", "y", " ", "1", "2">>, <<"w", "b", "1", "2">>, <<"n", "y", "c", " ", "l", "o", "f", "t">>>>]>>

PackBig ==
    <<[recordId |-> 16, title |-> <<"P", "6">>,
       keys |-> <<<<"a", "p", "t", " ", "a">>>>],
      [recordId |-> 15, title |-> <<"P", "5">>,
       keys |-> <<<<"a", "p", "t", " ", "b">>>>],
      [recordId |-> 14, title |-> <<"P", "4">>,
       keys |-> <<<<"a", "p", "t", " ", "c">>, <<"W", "B", "1", "2">>>>],
      [recordId |-> 13, title |-> <<"P", "3">>,
       keys |-> <<<<"a", "p", "t", " ", "d">>>>],
      [recordId |-> 12, title |-> <<"P", "2">>,
       keys |-> <<<<"a", "p", "t", " ", "e">>>>],
      [recordId |-> 11, title |-> <<"w", "b", "1", "2">>,
       keys |-> <<<<"a", "p", "t", " ", "f">>>>]>>

PackSmall ==
    <<[recordId |-> 21, title |-> <<"w", "b", "1", "2">>,
       keys |-> <<<<"l", "o", "f", "t", " ", "w", "b", "1", "2">>>>],
      [recordId |-> 2, title |-> <<"O", "t", "h", "e", "r">>,
       keys |-> <<<<"W", "b", "1", "2">>, <<"n", "y", "c">>>>]>>

\* eleven records that all carry the key "apt"
PackWide ==
    [i \in 1..11 |-> [recordId |-> 30 + i, title |-> <<"Q">>,
                      keys |-> <<<<"a", "p", "t">>>>]]

Packs == {<<>>, PackBig, PackSmall, PackWide}

\* the best score of a record for a query, lower is better, 2 is a miss;
\* stands for Fuse over keys ['title', 'keys'] (case-insensitive)
fuseScore(rec, query) ==
    LET q == toLowerCase(query)
        fields == <<rec.title>> \o rec.keys
    IN IF \E i \in 1..Len(fields) : toLowerCase(fields[i]) = q THEN 0
       ELSE IF \E i \in 1..Len(fields) : includes(toLowerCase(fields[i]), q) THEN 1
       ELSE 2

\* fuse.search(query).map(r => r.item): the matches, best score first
fuseSearch(index, query) ==
    SelectSeq(index, LAMBDA r : fuseScore(r, query) = 0) \o
    SelectSeq(index, LAMBDA r : fuseScore(r, query) = 1)

\* Array.prototype.slice(0, n)
slice0(xs, n) == SubSeq(xs, 1, IF Len(xs) < n THEN Len(xs) ELSE n)

\* search without the slice(0, 10) of its second return
searchUncapped(recs, index, query) ==
    IF trim(query) = <<>> THEN slice0(recs, 5)
    ELSE fuseSearch(index, query)

\* KnowledgeStore.search
search(recs, index, query) ==
    IF trim(query) = <<>> THEN slice0(recs, 5)
    ELSE slice0(fuseSearch(index, query), 10)

\* the test of findByKey in place of the equality: keys that contain bookingId
exactMatchesByIncludes(recs, bookingId) ==
    SelectSeq(recs, LAMBDA r :
        \E k \in 1..Len(r.keys) :
            includes(toLowerCase(r.keys[k]), toLowerCase(bookingId)))

\* the records whose keys hold a case-insensitive equal of bookingId
exactMatches(recs, bookingId) ==
    SelectSeq(recs, LAMBDA r :
        \E k \in 1..Len(r.keys) : toLowerCase(r.keys[k]) = toLowerCase(bookingId))

\* collected.push(m) for every match m whose recordId is not collected yet
RECURSIVE pushDistinct(_, _)
pushDistinct(collected, ms) ==
    IF ms = <<>> THEN collected
    ELSE IF \E i \in 1..Len(collected) : collected[i].recordId = Head(ms).recordId
         THEN pushDistinct(collected, Tail(ms))
         ELSE pushDistinct(Append(collected, Head(ms)), Tail(ms))

\* the loop of resolveContext over the candidates; searches counts fuse.search calls
RECURSIVE collectFrom(_, _, _, _)
collectFrom(index, candidates, collected, searches) ==
    IF candidates = <<>> THEN [result |-> collected, searches |-> searches]
    ELSE LET got == pushDistinct(collected, fuseSearch(index, Head(candidates)))
         IN IF Len(got) >= 3 THEN [result |-> got, searches |-> searches + 1]
            ELSE collectFrom(index, Tail(candidates), got, searches + 1)

\* KnowledgeStore.resolveContext for a non-null ctx
resolveContext(recs, index, ctx) ==
    LET exact == IF Truthy(ctx.bookingId) THEN exactMatches(recs, ctx.bookingId)
                 ELSE <<>>
    IN IF Len(exact) > 0 THEN [result |-> exact, searches |-> 0]
       ELSE collectFrom(index, ctx.apartmentKeyCandidates, <<>>, 0)

\* the table after replaceAllRecords: clear, then put each record by recordId
RECURSIVE putAll(_, _)
putAll(table, recs) ==
    IF recs = <<>> THEN table
    ELSE putAll({r \in table : r.recordId # Head(recs).recordId} \cup {Head(recs)},
                Tail(recs))

\* loadAllRecords: getAll() in key order
RECURSIVE sortedByKey(_)
sortedByKey(table) ==
    IF table = {} THEN <<>>
    ELSE LET least == CHOOSE r \in table : \A o \in table : r.recordId <= o.recordId
         IN <<least>> \o sortedByKey(table \ {least})

\* the queries and contexts the UI layer passes in
Queries == {<<>>, <<" ", " ">>, <<"a", "p", "t">>, <<"W", "B", "1", "2">>}

StoreCtxs ==
    {[bookingId |-> <<"w", "b", "1", "2">>, apartmentKeyCandidates |-> <<<<"a", "p", "t">>>>],
     [bookingId |-> <<"z", "z">>, apartmentKeyCandidates |-> <<<<"l", "o", "f", "t">>, <<"a", "p", "t">>>>],
     [bookingId |-> Undefined, apartmentKeyCandidates |-> <<<<"n", "y", "c">>, <<"w", "b", "1", "2">>>>],
     [bookingId |-> Undefined, apartmentKeyCandidates |-> <<>>]}

Out(name, arg, result, searches, notified) ==
    [op |-> name, arg |-> arg, result |-> result, searches |-> searches,
     notified |-> notified]

\* replaceAllRecords calls the model lets be in flight at once
MaxWrites == 2

\* new KnowledgeStore(): records = knowledgeSeed, the index built from it, and
\* init() running up to its await of loadAllRecords()
InitStore ==
    /\ records = knowledgeSeed
    /\ fuse = knowledgeSeed
    /\ initPc = "reading"
    /\ db \in {{}, putAll({}, PackSmall)}
    /\ writes = <<>>
    /\ storeOut = Out("new", <<>>, <<>>, 0, <<>>)
    /\ initialized = TRUE
    /\ reads = 1
    /\ overlapped = FALSE

\* init() replacing this.records with the rows but keeping the old index
HydrateResolveStaleIndex ==
    /\ initPc = "reading"
    /\ LET fromDb == sortedByKey(db)
       IN IF Len(fromDb) > 0
          THEN /\ records' = fromDb
               /\ fuse' = fuse
               /\ initPc' = "done"
               /\ writes' = writes
               /\ storeOut' = Out("init", <<>>, <<>>, 0, <<fromDb>>)
          ELSE /\ Len(writes) < MaxWrites
               /\ initPc' = "seeding"
               /\ writes' = Append(writes, [by |-> "init", recs |-> records])
               /\ storeOut' = Out("init", <<>>, <<>>, 0, <<>>)
               /\ UNCHANGED <<records, fuse>>
    /\ UNCHANGED db
    /\ UNCHANGED <<initialized, reads, overlapped>>

\* init() resumes with the rows of loadAllRecords()
HydrateResolve ==
    /\ initPc = "reading"
    /\ LET fromDb == sortedByKey(db)
       IN IF Len(fromDb) > 0
          THEN /\ records' = fromDb
               /\ fuse' = fromDb
               /\ initPc' = "done"
               /\ writes' = writes
               /\ storeOut' = Out("init", <<>>, <<>>, 0, <<fromDb>>)
          ELSE /\ Len(writes) < MaxWrites
               /\ initPc' = "seeding"
               /\ writes' = Append(writes, [by |-> "init", recs |-> records])
               /\ storeOut' = Out("init", <<>>, <<>>, 0, <<>>)
               /\ UNCHANGED <<records, fuse>>
    /\ UNCHANGED db
    /\ UNCHANGED <<initialized, reads, overlapped>>

\* init() without its try/catch: the rejection of loadAllRecords() leaves init()
HydrateFailRejects ==
    /\ initPc = "reading"
    /\ initPc' = "rejected"
    /\ storeOut' = Out("initFailed", <<>>, <<>>, 0, <<>>)
    /\ UNCHANGED <<records, fuse, db, writes>>
    /\ UNCHANGED <<initialized, reads, overlapped>>

\* loadAllRecords() rejects; init() swallows it
HydrateFail ==
    /\ initPc = "reading"
    /\ initPc' = "done"
    /\ storeOut' = Out("initFailed", <<>>, <<>>, 0, <<>>)
    /\ UNCHANGED <<records, fuse, db, writes>>
    /\ UNCHANGED <<initialized, reads, overlapped>>

\* calls of loadAllRecords() the unguarded init may make
MaxReads == 2

\* init() without its test of this.initialized
initUnguarded ==
    /\ reads < MaxReads
    /\ initialized' = TRUE
    /\ reads' = reads + 1
    /\ initPc' = "reading"
    /\ storeOut' = Out("initCall", <<>>, <<>>, 0, <<>>)
    /\ UNCHANGED <<records, fuse, db, writes, overlapped>>

\* init() called on the constructed store: it returns at once when
\* this.initialized is set, else sets it and calls loadAllRecords()
init ==
    /\ IF initialized
       THEN UNCHANGED <<initialized, reads, initPc>>
       ELSE /\ initialized' = TRUE
            /\ reads' = reads + 1
            /\ initPc' = "reading"
    /\ storeOut' = Out("initCall", <<>>, <<>>, 0, <<>>)
    /\ UNCHANGED <<records, fuse, db, writes, overlapped>>

\* loadPack that rebuilds the index but leaves this.records for after the write
loadPackIndexOnly(pack) ==
    /\ Len(writes) < MaxWrites
    /\ records' = records
    /\ fuse' = pack
    /\ writes' = Append(writes, [by |-> "loadPack", recs |-> pack])
    /\ storeOut' = Out("loadPack", pack, <<>>, 0, <<pack>>)
    /\ UNCHANGED <<initPc, db>>
    /\ overlapped' = (\E i \in 1..Len(writes) : writes[i].by = "loadPack")
    /\ UNCHANGED <<initialized, reads>>

\* loadPack(pack) up to its await of replaceAllRecords(pack)
loadPack(pack) ==
    /\ Len(writes) < MaxWrites
    /\ records' = pack
    /\ fuse' = pack
    /\ writes' = Append(writes, [by |-> "loadPack", recs |-> pack])
    /\ storeOut' = Out("loadPack", pack, <<>>, 0, <<pack>>)
    /\ UNCHANGED <<initPc, db>>
    /\ overlapped' = (\E i \in 1..Len(writes) : writes[i].by = "loadPack")
    /\ UNCHANGED <<initialized, reads>>

\* replaceAllRecords without store.clear(): the puts land on the old rows
WriteCommitWithoutClear ==
    /\ writes # <<>>
    /\ db' = putAll(db, Head(writes).recs)
    /\ writes' = Tail(writes)
    /\ initPc' = IF Head(writes).by = "init" THEN "done" ELSE initPc
    /\ storeOut' = Out("written", Head(writes).recs, <<>>, 0, <<>>)
    /\ UNCHANGED <<records, fuse>>
    /\ UNCHANGED <<initialized, reads, overlapped>>

\* the oldest replaceAllRecords transaction commits and its caller resumes
WriteCommit ==
    /\ writes # <<>>
    /\ db' = putAll({}, Head(writes).recs)
    /\ writes' = Tail(writes)
    /\ initPc' = IF Head(writes).by = "init" THEN "done" ELSE initPc
    /\ storeOut' = Out("written", Head(writes).recs, <<>>, 0, <<>>)
    /\ UNCHANGED <<records, fuse>>
    /\ UNCHANGED <<initialized, reads, overlapped>>

\* a failed write that puts the persisted rows back in memory
WriteFailRollsBack ==
    /\ writes # <<>>
    /\ writes' = Tail(writes)
    /\ initPc' = IF Head(writes).by = "init" THEN "done" ELSE initPc
    /\ storeOut' = Out(IF Head(writes).by = "init" THEN "seedFailed" ELSE "writeFailed",
                       Head(writes).recs, <<>>, 0, <<>>)
    /\ records' = sortedByKey(db)
    /\ fuse' = sortedByKey(db)
    /\ UNCHANGED db
    /\ UNCHANGED <<initialized, reads, overlapped>>

\* the oldest replaceAllRecords transaction aborts; the caller's catch swallows it
WriteFail ==
    /\ writes # <<>>
    /\ writes' = Tail(writes)
    /\ initPc' = IF Head(writes).by = "init" THEN "done" ELSE initPc
    /\ storeOut' = Out(IF Head(writes).by = "init" THEN "seedFailed" ELSE "writeFailed",
                       Head(writes).recs, <<>>, 0, <<>>)
    /\ UNCHANGED <<records, fuse, db>>
    /\ UNCHANGED <<initialized, reads, overlapped>>

Search(q) ==
    /\ storeOut' = Out("search", q, search(records, fuse, q), 0, <<>>)
    /\ UNCHANGED <<records, fuse, initPc, db, writes>>
    /\ UNCHANGED <<initialized, reads, overlapped>>

ResolveContext(ctx) ==
    /\ LET r == resolveContext(records, fuse, ctx)
       IN storeOut' = Out("resolveContext", ctx, r.result, r.searches, <<>>)
    /\ UNCHANGED <<records, fuse, initPc, db, writes>>
    /\ UNCHANGED <<initialized, reads, overlapped>>

\* ------------------------------------------------------------------------
\* Audit log
\* ------------------------------------------------------------------------

\* A timestamp is the clock reading, 0 stands for undefined; ISO strings of one
\* width compare as their instants do.  The cache key `${recordId}:${fieldKey}`
\* is the pair, the ids holding no ':'.

RecordIds == {"apt-sds46", "apt-nyc-wb12"}

FieldKeys == {"keybox_code"}

AuditPairs == RecordIds \X FieldKeys

\* the last clock reading the model reaches
MaxClock == 2

\* the getLastReveal / logReveal calls the model lets be in flight at once
CallIds == {"c1", "c2"}

\* scans saturates here
MaxScans == 3

AuditEvent(pair, ts) ==
    [id |-> <<pair, ts>>, recordId |-> pair[1], fieldKey |-> pair[2],
     timestamp |-> ts, action |-> "reveal"]

\* tx.store.put(event): the row with the same id is replaced
putEvent(table, event) == {e \in table : e.id # event.id} \cup {event}

\* loadAuditLatest with its comparison turned round: the least timestamp per key
loadAuditEarliest(table) ==
    [k \in AuditPairs |->
        LET ts == {e.timestamp : e \in {x \in table : <<x.recordId, x.fieldKey>> = k}}
        IN IF ts = {} THEN 0 ELSE CHOOSE t \in ts : \A o \in ts : t <= o]

\* loadAuditLatest over the rows: the greatest timestamp per key, 0 for no row
loadAuditLatest(table) ==
    [k \in AuditPairs |->
        LET ts == {e.timestamp : e \in {x \in table : <<x.recordId, x.fieldKey>> = k}}
        IN IF ts = {} THEN 0 ELSE CHOOSE t \in ts : \A o \in ts : o <= t]

\* Object.assign(cache, latest): only the keys latest holds are written
assignLatest(c, latest) ==
    [k \in AuditPairs |-> IF latest[k] # 0 THEN latest[k] ELSE c[k]]

NoLatest == [k \in AuditPairs |-> 0]

IdleCall == [op |-> "idle", pc |-> "idle", pair |-> <<"", "">>, ts |-> 0, latest |-> NoLatest]

\* a call whose promise rejected; the slot is free for the next call
RejectedCall == [IdleCall EXCEPT !.pc = "rejected"]

InitAudit ==
    /\ cache = [k \in AuditPairs |-> 0]
    /\ hydrated = FALSE
    /\ clock = 1
    /\ auditDb \in {{}, {AuditEvent(<<"apt-sds46", "keybox_code">>, 1)}}
    /\ calls = [c \in CallIds |-> IdleCall]
    /\ scans = 0
    /\ audited = [k \in AuditPairs |-> [logged |-> 0, got |-> 0]]

\* time passes
Tick ==
    /\ clock < MaxClock
    /\ clock' = clock + 1
    /\ UNCHANGED <<cache, hydrated, auditDb, calls, scans, audited>>

\* getLastReveal(recordId, fieldKey) is called: with hydrated set it returns
\* the cached value, otherwise it calls loadAuditLatest() and awaits it
getLastRevealCall(c, pair) ==
    /\ calls[c].op = "idle"
    /\ IF hydrated
       THEN /\ audited' = [audited EXCEPT ![pair].got = cache[pair]]
            /\ UNCHANGED <<calls, scans>>
       ELSE /\ calls' = [calls EXCEPT ![c] = [IdleCall EXCEPT !.op = "get",
                                                !.pc = "scanning", !.pair = pair]]
            /\ scans' = IF scans < MaxScans THEN scans + 1 ELSE scans
            /\ UNCHANGED audited
    /\ UNCHANGED <<cache, hydrated, auditDb, clock>>

\* the read transaction of loadAuditLatest runs
ScanRead(c) ==
    /\ calls[c].pc = "scanning"
    /\ calls' = [calls EXCEPT ![c].pc = "scanned", ![c].latest = loadAuditLatest(auditDb)]
    /\ UNCHANGED <<cache, hydrated, auditDb, clock, scans, audited>>

\* the read transaction fails: loadAuditLatest() rejects, nothing in
\* getLastReveal catches it, so its promise rejects and hydrated stays false
ScanFail(c) ==
    /\ calls[c].pc = "scanning"
    /\ calls' = [calls EXCEPT ![c] = RejectedCall]
    /\ UNCHANGED <<cache, hydrated, auditDb, clock, scans, audited>>

\* getLastReveal resumes after its await
getLastRevealResume(c) ==
    /\ calls[c].pc = "scanned"
    /\ cache' = assignLatest(cache, calls[c].latest)
    /\ hydrated' = TRUE
    /\ audited' = [audited EXCEPT ![calls[c].pair].got = cache'[calls[c].pair]]
    /\ calls' = [calls EXCEPT ![c] = IdleCall]
    /\ UNCHANGED <<auditDb, clock, scans>>

\* logReveal(recordId, fieldKey) is called: it reads the clock and awaits
\* recordAuditEvent
logRevealCall(c, pair) ==
    /\ calls[c].op = "idle"
    /\ calls' = [calls EXCEPT ![c] = [IdleCall EXCEPT !.op = "log", !.pc = "writing",
                                        !.pair = pair, !.ts = clock]]
    /\ UNCHANGED <<cache, hydrated, auditDb, clock, scans, audited>>

\* the write transaction of recordAuditEvent commits
AuditWrite(c) ==
    /\ calls[c].pc = "writing"
    /\ auditDb' = putEvent(auditDb, AuditEvent(calls[c].pair, calls[c].ts))
    /\ calls' = [calls EXCEPT ![c].pc = "written"]
    /\ UNCHANGED <<cache, hydrated, clock, scans, audited>>

\* the write transaction fails: recordAuditEvent() rejects, nothing in
\* logReveal catches it, so its promise rejects before it touches the cache
AuditWriteFail(c) ==
    /\ calls[c].pc = "writing"
    /\ calls' = [calls EXCEPT ![c] = RejectedCall]
    /\ UNCHANGED <<cache, hydrated, auditDb, clock, scans, audited>>

\* logReveal resumes after its await
logRevealResume(c) ==
    /\ calls[c].pc = "written"
    /\ cache' = [cache EXCEPT ![calls[c].pair] = calls[c].ts]
    /\ audited' = [audited EXCEPT ![calls[c].pair].logged = calls[c].ts]
    /\ calls' = [calls EXCEPT ![c] = IdleCall]
    /\ UNCHANGED <<hydrated, auditDb, clock, scans>>

\* no call is in flight: the caller awaited each call before the next
Quiet == \A c \in CallIds : calls[c].op = "idle"

\* ------------------------------------------------------------------------
\* Inline trigger (capture.ts) and the background search
\* ------------------------------------------------------------------------

\* the characters \w matches among those the texts use
WordChars == {"w", "k", "h", "i"}

\* what the user may have typed before the cursor
Texts == {<<"h", "i">>, <<"/">>, <<"/", "w">>, <<"/", "k">>, <<"/", "w", " ">>}

\* context.match(/\/(\w*)$/): <<>> for null, else <<match[1]>>; \w excludes
\* '/', so only the last '/' can start the match
triggerMatch(context) ==
    LET slashes == {i \in 1..Len(context) : context[i] = "/"}
    IN IF slashes = {} THEN <<>>
       ELSE LET last == CHOOSE i \in slashes : \A j \in slashes : j <= i
                rest == SubSeq(context, last + 1, Len(context))
            IN IF \A k \in 1..Len(rest) : rest[k] \in WordChars
               THEN <<rest>> ELSE <<>>

\* the background's cachedSnippets, by title, with their lastUsed stamps
cachedSnippets ==
    <<[title |-> <<"w", "i", "f", "i">>, lastUsed |-> 2],
      [title |-> <<"k", "e", "y">>, lastUsed |-> 1],
      [title |-> <<"W", "e", "l", "c", "o", "m", "e">>, lastUsed |-> 3]>>

\* [...cachedSnippets].sort((a, b) => b.lastUsed - a.lastUsed)
RECURSIVE byLastUsed(_)
byLastUsed(snips) ==
    IF snips = {} THEN <<>>
    ELSE LET top == CHOOSE x \in snips : \A y \in snips : y.lastUsed <= x.lastUsed
         IN <<top>> \o byLastUsed(snips \ {top})

\* performSearch once the index is loaded: the five most recently used
\* snippets for an empty query, else the first five matches of the index
\* (a match stands for a title that contains the query, case-insensitive)
performSearch(query) ==
    IF query = <<>> \/ trim(query) = <<>>
    THEN slice0(byLastUsed({cachedSnippets[i] : i \in 1..Len(cachedSnippets)}), 5)
    ELSE slice0(SelectSeq(cachedSnippets,
                          LAMBDA sn : includes(toLowerCase(sn.title), toLowerCase(query))), 5)

\* SEARCH_QUERY messages the model lets the page send
MaxRequests == 3

\* how an exchange can end: results delivered, performSearch caught an error
\* (it answers []), chrome.runtime.lastError set, getCoordinates() null
Outcomes == {"ok", "searchError", "lastError", "noCoords"}

CaptureOut(name, req, outcome, results) ==
    [op |-> name, req |-> req, outcome |-> outcome, results |-> results]

InitCapture ==
    /\ editor = <<>>
    /\ debounceTimer = FALSE
    /\ sent = <<>>
    /\ inflight = {}
    /\ overlay = <<>>
    /\ captureOut = CaptureOut("load", 0, "", <<>>)

\* handleInput on an input / keyup / compositionend event: the pending
\* timeout is cleared and a new one set
handleInput(text) ==
    /\ editor' = text
    /\ debounceTimer' = TRUE
    /\ captureOut' = CaptureOut("input", 0, "", <<>>)
    /\ UNCHANGED <<sent, inflight, overlay>>

\* the timeout fires: checkForTrigger reads the text and either sends a
\* SEARCH_QUERY message or hides the overlay
checkForTrigger ==
    /\ debounceTimer
    /\ debounceTimer' = FALSE
    /\ LET match == triggerMatch(editor)
       IN IF match # <<>>
          THEN /\ Len(sent) < MaxRequests
               /\ sent' = Append(sent, match[1])
               /\ inflight' = inflight \cup {Len(sent) + 1}
               /\ overlay' = overlay
               /\ captureOut' = CaptureOut("send", Len(sent) + 1, "", <<>>)
          ELSE /\ overlay' = <<>>
               /\ captureOut' = CaptureOut("hide", 0, "", <<>>)
               /\ UNCHANGED <<sent, inflight>>
    /\ UNCHANGED editor

\* what the background answers to request req
answer(req, outcome) ==
    IF outcome = "searchError" THEN <<>> ELSE performSearch(sent[req])

\* a response callback that drops the response of a request that is not the
\* latest one sent
respondIfLatest(req, outcome) ==
    /\ req \in inflight
    /\ inflight' = inflight \ {req}
    /\ overlay' = IF outcome \in {"ok", "searchError"} /\ req = Len(sent)
                  THEN <<answer(req, outcome)>> ELSE overlay
    /\ captureOut' = CaptureOut("response", req, outcome, answer(req, outcome))
    /\ UNCHANGED <<editor, debounceTimer, sent>>

\* the background answers request req and the callback passed to
\* sendMessage runs: responses arrive in any order
respond(req, outcome) ==
    /\ req \in inflight
    /\ inflight' = inflight \ {req}
    /\ overlay' = IF outcome \in {"ok", "searchError"}
                  THEN <<answer(req, outcome)>> ELSE overlay
    /\ captureOut' = CaptureOut("response", req, outcome, answer(req, outcome))
    /\ UNCHANGED <<editor, debounceTimer, sent>>

\* ------------------------------------------------------------------------
\* Palette (Palette.tsx, paletteUtils.ts)
\* ------------------------------------------------------------------------

\* stands for the character U+2022, which no field value holds
Bullet == "*"

Mask == <<Bullet, Bullet, Bullet, Bullet, Bullet, Bullet>>

\* renderFieldValue showing a secret whatever revealed says
renderFieldValueUnmasked(field, isRevealed) ==
    IF field.type = "text" THEN field.value
    ELSE IF field.type = "secret" THEN field.value
    ELSE IF field.type = "link"
    THEN field.value.label \o <<" ", "(">> \o field.value.url \o <<")">>
    ELSE <<>>

\* paletteUtils.renderFieldValue
renderFieldValue(field, isRevealed) ==
    IF field.type = "text" THEN field.value
    ELSE IF field.type = "secret" THEN (IF isRevealed THEN field.value ELSE Mask)
    ELSE IF field.type = "link"
    THEN field.value.label \o <<" ", "(">> \o field.value.url \o <<")">>
    ELSE <<>>

\* paletteUtils.shouldMask
shouldMask(field, isRevealed) ==
    IF field.type # "secret" THEN FALSE ELSE ~isRevealed

\* the records prop: the two seed records with their keybox_code and
\* wifi_name fields, and a link field on the first
PaletteRecords ==
    <<[recordId |-> "apt-sds46",
       fields |-> <<[key |-> "keybox_code",
                     field |-> [type |-> "secret", value |-> <<"7", "3", "9", "1">>,
                                auditOnReveal |-> TRUE]],
                    [key |-> "wifi_name",
                     field |-> [type |-> "text", value |-> <<"S", "D", "S">>,
                                auditOnReveal |-> FALSE]],
                    [key |-> "listing",
                     field |-> [type |-> "link",
                                value |-> [label |-> <<"A", "d">>, url |-> <<"u", ".", "i", "o">>],
                                auditOnReveal |-> FALSE]]>>],
      [recordId |-> "apt-nyc-wb12",
       fields |-> <<[key |-> "keybox_code",
                     field |-> [type |-> "secret", value |-> <<"0", "0", "4", "2">>,
                                auditOnReveal |-> TRUE]],
                    [key |-> "wifi_name",
                     field |-> [type |-> "text", value |-> <<"W", "B", "1", "2">>,
                                auditOnReveal |-> FALSE]]>>]>>

\* activeRecord = results[highlight] with an empty query and no context key
activeRecordAt(h) == PaletteRecords[h]

\* revealed[field.value] ?? false, read for secret fields only
isRevealedIn(rev, field) == field.type = "secret" /\ field.value \in rev

\* the aether-field rows of the details pane for highlight h and revealed rev
fieldRows(h, rev) ==
    [i \in 1..Len(activeRecordAt(h).fields) |->
        LET e == activeRecordAt(h).fields[i]
        IN [key |-> e.key,
            text |-> renderFieldValue(e.field,
                        ~shouldMask(e.field, isRevealedIn(rev, e.field)))]]

\* the secret keys of a record, which are the keys loadReveals asks for
secretKeys(rec) ==
    {rec.fields[i].key : i \in {j \in 1..Len(rec.fields) : rec.fields[j].field.type = "secret"}}

\* the mounted palette before its first effect has run
InitPalette ==
    /\ highlight = 1
    /\ revealed = {}
    /\ lastReveals = [k \in AuditPairs |-> 0]
    /\ effectDue = TRUE
    /\ cancelled = {}
    /\ rendered = fieldRows(1, {})

\* setHighlight(idx) from the arrows or onMouseEnter: the active record
\* changes, the effect of the old one is cleaned up and a new one scheduled
setHighlight(idx) ==
    /\ ~effectDue
    /\ idx # highlight
    /\ highlight' = idx
    /\ effectDue' = TRUE
    /\ cancelled' = cancelled \cup {c \in CallIds : calls[c].op = "get"}
    /\ rendered' = fieldRows(idx, revealed)
    /\ UNCHANGED <<revealed, lastReveals>>
    /\ UNCHANGED auditVars

\* the effect runs loadReveals: getLastReveal for the secret field of the
\* active record; with the cache hydrated it resolves at once
loadReveals(c) ==
    /\ effectDue
    /\ effectDue' = FALSE
    /\ \E key \in secretKeys(activeRecordAt(highlight)) :
          LET pair == <<activeRecordAt(highlight).recordId, key>>
          IN /\ getLastRevealCall(c, pair)
             /\ lastReveals' = IF hydrated /\ cache[pair] # 0
                               THEN [lastReveals EXCEPT ![pair] = cache[pair]]
                               ELSE lastReveals
    /\ cancelled' = cancelled \ {c}
    /\ UNCHANGED <<highlight, revealed, rendered>>

\* getLastReveal resolves and loadReveals resumes: setLastReveals unless the
\* effect was cleaned up or there is no timestamp
loadRevealsResume(c) ==
    /\ getLastRevealResume(c)
    /\ lastReveals' = IF c \notin cancelled /\ cache'[calls[c].pair] # 0
                      THEN [lastReveals EXCEPT ![calls[c].pair] = cache'[calls[c].pair]]
                      ELSE lastReveals
    /\ cancelled' = cancelled \ {c}
    /\ UNCHANGED <<highlight, revealed, effectDue, rendered>>

\* getLastReveal rejects: loadReveals().catch(() => {}) drops it
loadRevealsFail(c) ==
    /\ ScanFail(c)
    /\ cancelled' = cancelled \ {c}
    /\ UNCHANGED <<highlight, revealed, lastReveals, effectDue, rendered>>

\* toggleReveal(fieldKey, field) up to its await of logReveal
toggleReveal(c, i) ==
    /\ ~effectDue
    /\ i \in 1..Len(activeRecordAt(highlight).fields)
    /\ LET e == activeRecordAt(highlight).fields[i]
           next == ~isRevealedIn(revealed, e.field)
       IN /\ e.field.type = "secret"
          /\ revealed' = IF next THEN revealed \cup {e.field.value}
                         ELSE revealed \ {e.field.value}
          /\ IF next /\ e.field.auditOnReveal
             THEN logRevealCall(c, <<activeRecordAt(highlight).recordId, e.key>>)
             ELSE UNCHANGED auditVars
    /\ rendered' = fieldRows(highlight, revealed')
    /\ UNCHANGED <<highlight, lastReveals, effectDue, cancelled>>

\* logReveal resolves and toggleReveal resumes with setLastReveals
toggleRevealResume(c) ==
    /\ logRevealResume(c)
    /\ lastReveals' = [lastReveals EXCEPT ![calls[c].pair] = clock]
    /\ UNCHANGED <<highlight, revealed, effectDue, cancelled, rendered>>

\* logReveal rejects: .catch(() => {}) drops it and toggleReveal resumes the
\* same way
toggleRevealCaught(c) ==
    /\ AuditWriteFail(c)
    /\ lastReveals' = [lastReveals EXCEPT ![calls[c].pair] = clock]
    /\ UNCHANGED <<highlight, revealed, effectDue, cancelled, rendered>>

\* ------------------------------------------------------------------------
\* Subscribers that call back into the module (context.ts)
\* ------------------------------------------------------------------------

\* number of subscribers registered when callbacks re-enter the module
NumSubscribers == 2

SubscriberIds == 1..NumSubscribers

\* no listener has been added and no callback has run
InitSubscribers ==
    /\ order = <<>>
    /\ delivered = [l \in SubscriberIds |-> <<>>]
    /\ reentered = FALSE

\* the place of listener l in the iteration of listeners.forEach: a Set is
\* visited in insertion order
visitIndex(l) == CHOOSE i \in 1..Len(order) : order[i] = l

\* what the callback of a subscriber does the first time an operation calls
\* it: nothing, setPinnedContext(key, reason), or clearPinnedContext()
Reactions ==
    {[kind |-> "none", by |-> 0, req |-> <<>>]}
    \cup {[kind |-> "pin", by |-> l, req |-> r] : l \in SubscriberIds, r \in PinRequests}
    \cup {[kind |-> "clear", by |-> l, req |-> <<>>] : l \in SubscriberIds}

\* the object setPinnedContext(key, reason) assigns to pinned
pinnedFrom(key, reason) ==
    [app |-> sPinned, bookingId |-> key, apartmentKeyCandidates |-> <<key>>,
     confidence |-> "high", evidence |-> <<<<"reason", reason>>>>]

\* what the call a callback makes passes to the nested notify: cfgs is the
\* value of resolverConfigs at that moment
nestedContext(re, cfgs) ==
    IF re.kind = "pin"
    THEN [threw |-> FALSE,
          ctx |-> withLegacy(pinnedFrom(re.req[1], re.req[2]),
                             <<<<"reason", re.req[2]>>>>)]
    ELSE detectNow(<<>>, cfgs, page)

\* notify(newCtx) as the last call of the operation name, which left pinned
\* as pinAfter. current is bound to newCtx and listeners.forEach calls each
\* listener in order. When the callback of re.by calls setPinnedContext or
\* clearPinnedContext, the nested notify binds current to nested.ctx and
\* visits every listener before it returns; the outer forEach then goes on
\* with newCtx for the listeners after re.by. An exception of the nested
\* detectNow (nested.threw) leaves every frame.
notifyReentrant(name, newCtx, pinAfter, re, nested) ==
    IF re.kind = "none"
    THEN /\ current' = newCtx
         /\ pinned' = pinAfter
         /\ delivered' = [l \in SubscriberIds |->
                            IF l \in listeners THEN <<newCtx>> ELSE delivered[l]]
         /\ called' = listeners
         /\ reentered' = FALSE
         /\ lastOp' = Op(name, FALSE)
    ELSE IF nested.threw
    THEN /\ current' = newCtx
         /\ pinned' = <<>>
         /\ delivered' = [l \in SubscriberIds |->
                            IF l \in listeners /\ visitIndex(l) <= visitIndex(re.by)
                            THEN <<newCtx>> ELSE delivered[l]]
         /\ called' = {l \in listeners : visitIndex(l) <= visitIndex(re.by)}
         /\ reentered' = TRUE
         /\ lastOp' = Op(name, TRUE)
    ELSE /\ current' = nested.ctx
         /\ pinned' = IF re.kind = "pin"
                      THEN <<pinnedFrom(re.req[1], re.req[2])>> ELSE <<>>
         /\ delivered' = [l \in SubscriberIds |->
                            IF l \notin listeners THEN delivered[l]
                            ELSE IF visitIndex(l) <= visitIndex(re.by)
                            THEN <<nested.ctx>>
                            ELSE <<newCtx>>]
         /\ called' = listeners
         /\ reentered' = TRUE
         /\ lastOp' = Op(name, FALSE)

\* an exception of detectNow leaves the operation before notify is reached
throwBeforeNotify(name, pinAfter) ==
    /\ pinned' = pinAfter
    /\ called' = {}
    /\ reentered' = FALSE
    /\ lastOp' = Op(name, TRUE)
    /\ UNCHANGED <<current, delivered>>

\* notify(detectNow()): next is what detectNow did
notifyDetectedReentrant(name, next, pinAfter, re, nested) ==
    IF next.threw THEN throwBeforeNotify(name, pinAfter)
    ELSE notifyReentrant(name, next.ctx, pinAfter, re, nested)

\* subscribeContext(l) with the place of l in the Set and what l was given
subscribeInOrder(l) ==
    /\ subscribeContext(l)
    /\ order' = IF l \in listeners THEN order ELSE Append(order, l)
    /\ delivered' = [delivered EXCEPT ![l] = <<current>>]
    /\ reentered' = FALSE

\* setPinnedContext(key, reason) with subscribers that may call back
setPinnedContextReentrant(key, reason, re) ==
    /\ re.kind = "none" \/ re.by \in listeners
    /\ notifyReentrant("setPinned",
                       withLegacy(pinnedFrom(key, reason), <<<<"reason", reason>>>>),
                       <<pinnedFrom(key, reason)>>, re,
                       nestedContext(re, resolverConfigs))
    /\ UNCHANGED <<page, resolverConfigs, listeners, moPending, held, order>>

\* clearPinnedContext() with subscribers that may call back
clearPinnedContextReentrant(re) ==
    /\ re.kind = "none" \/ re.by \in listeners
    /\ notifyDetectedReentrant("clearPinned", detectNow(<<>>, resolverConfigs, page),
                               <<>>, re, nestedContext(re, resolverConfigs))
    /\ UNCHANGED <<page, resolverConfigs, listeners, moPending, held, order>>

\* the chrome.storage callbacks with subscribers that may call back
ConfigChangeReentrant(cfgs, re) ==
    /\ re.kind = "none" \/ re.by \in listeners
    /\ resolverConfigs' = cfgs
    /\ notifyDetectedReentrant("config", detectNow(pinned, cfgs, page),
                               pinned, re, nestedContext(re, cfgs))
    /\ UNCHANGED <<page, listeners, moPending, held, order>>

\* ------------------------------------------------------------------------
\* Placeholder history (background.ts)
\* ------------------------------------------------------------------------

HISTORY_KEY_PREFIX ==
    <<"p", "l", "a", "c", "e", "h", "o", "l", "d", "e", "r", "_",
      "h", "i", "s", "t", "o", "r", "y", "_">>

MAX_HISTORY_PER_KEY == 5

\* saveToPlaceholderHistory calls that can be in flight together
MaxSaves == 2

SaveIds == 1..MaxSaves

\* the placeholder names of the SAVE_PLACEHOLDER_VALUE messages: one name in
\* two spellings
HistoryKeys == {<<"N", "a">>, <<"n", "a">>}

\* the values of the messages: two texts that differ by a blank in front
\* and two that are empty once trimmed
HistoryValues == {<<"a">>, <<" ", "a">>, <<>>, <<" ", " ">>}

\* the history four saves of earlier sessions left: e, d, c, then b
EarlierHistory == <<<<"b">>, <<"c">>, <<"d">>, <<"e">>>>

\* HISTORY_KEY_PREFIX + key.toLowerCase()
storageKey(key) == HISTORY_KEY_PREFIX \o toLowerCase(key)

StorageKeys == {storageKey(k) : k \in HistoryKeys}

\* (result[storageKey] as string[] | undefined) || [] ; item is <<>> when the
\* storage holds nothing under the key and <<history>> when it does
historyOrEmpty(item) == IF item = <<>> THEN <<>> ELSE item[1]

\* history.filter(v => v !== value)
filterOut(history, value) == SelectSeq(history, LAMBDA v : v # value)

\* history.slice(0, n)
sliceFront(history, n) == SubSeq(history, 1, IF Len(history) < n THEN Len(history) ELSE n)

\* the history saveToPlaceholderHistory writes back, without the filter
nextHistoryKeepingDuplicates(history, value) ==
    sliceFront(<<value>> \o history, MAX_HISTORY_PER_KEY)

\* filter, unshift, slice: the history saveToPlaceholderHistory writes back
nextHistory(history, value) ==
    sliceFront(<<value>> \o filterOut(history, value), MAX_HISTORY_PER_KEY)

IdleSave == [stage |-> "idle", key |-> <<>>, value |-> <<>>, history |-> <<>>, cut |-> FALSE]

HistoryOut(name, key, value, cut, result) ==
    [op |-> name, key |-> key, value |-> value, cut |-> cut, result |-> result]

\* a fresh profile: chrome.storage.local holds no history
InitHistory ==
    /\ stored = [k \in StorageKeys |-> <<>>]
    /\ saves = [s \in SaveIds |-> IdleSave]
    /\ historyOut = HistoryOut("load", <<>>, <<>>, FALSE, <<>>)

\* the storage of a fresh profile or of one used before
InitHistoryStored ==
    /\ stored \in {[k \in StorageKeys |-> <<>>], [k \in StorageKeys |-> <<EarlierHistory>>]}
    /\ saves = [s \in SaveIds |-> IdleSave]
    /\ historyOut = HistoryOut("load", <<>>, <<>>, FALSE, <<>>)

\* saveToPlaceholderHistory(key, value) up to its first await: it returns at
\* once on a value that is empty when trimmed, else asks the storage for the
\* history of the key
saveToPlaceholderHistory(s, key, value) ==
    /\ saves[s].stage = "idle"
    /\ IF trim(value) = <<>>
       THEN /\ saves' = saves
            /\ historyOut' = HistoryOut("skipped", storageKey(key), <<>>, FALSE, <<>>)
       ELSE /\ saves' = [saves EXCEPT ![s] = [stage |-> "get", key |-> storageKey(key),
                                             value |-> value, history |-> <<>>,
                                             cut |-> FALSE]]
            /\ historyOut' = HistoryOut("save", storageKey(key), <<>>, FALSE, <<>>)
    /\ UNCHANGED stored

\* chrome.storage.local.get resolves and the call goes on to its set, writing
\* back the read history as it is with the value put in front
saveAfterGetKeepingDuplicates(s) ==
    /\ saves[s].stage = "get"
    /\ saves' = [saves EXCEPT ![s] =
                   [stage |-> "set", key |-> saves[s].key, value |-> saves[s].value,
                    history |-> nextHistoryKeepingDuplicates(
                                    historyOrEmpty(stored[saves[s].key]), saves[s].value),
                    cut |-> Len(historyOrEmpty(stored[saves[s].key])) + 1
                            > MAX_HISTORY_PER_KEY]]
    /\ historyOut' = HistoryOut("read", saves[s].key, <<>>, FALSE, <<>>)
    /\ UNCHANGED stored

\* chrome.storage.local.get resolves and the call goes on to its set; cut
\* says whether slice dropped a value
saveAfterGet(s) ==
    /\ saves[s].stage = "get"
    /\ saves' = [saves EXCEPT ![s] =
                   [stage |-> "set", key |-> saves[s].key, value |-> saves[s].value,
                    history |-> nextHistory(historyOrEmpty(stored[saves[s].key]),
                                            saves[s].value),
                    cut |-> Len(filterOut(historyOrEmpty(stored[saves[s].key]),
                                          saves[s].value)) + 1
                            > MAX_HISTORY_PER_KEY]]
    /\ historyOut' = HistoryOut("read", saves[s].key, <<>>, FALSE, <<>>)
    /\ UNCHANGED stored

\* chrome.storage.local.set resolves: the call is complete
saveAfterSet(s) ==
    /\ saves[s].stage = "set"
    /\ stored' = [stored EXCEPT ![saves[s].key] = <<saves[s].history>>]
    /\ saves' = [saves EXCEPT ![s] = IdleSave]
    /\ historyOut' = HistoryOut("saved", saves[s].key, saves[s].value, saves[s].cut, <<>>)

\* the storage rejects the get or the set: the call rejects and the message
\* handler answers false
saveRejected(s) ==
    /\ saves[s].stage \in {"get", "set"}
    /\ saves' = [saves EXCEPT ![s] = IdleSave]
    /\ historyOut' = HistoryOut("rejected", saves[s].key, <<>>, FALSE, <<>>)
    /\ UNCHANGED stored

\* getPlaceholderHistory(key)
getPlaceholderHistory(key) ==
    /\ historyOut' = HistoryOut("history", storageKey(key), <<>>, FALSE,
                                historyOrEmpty(stored[storageKey(key)]))
    /\ UNCHANGED <<stored, saves>>

\* ------------------------------------------------------------------------
\* Specifications
\* ------------------------------------------------------------------------

\* the page of a specification that does not exercise the controller
CtxAtRest ==
    /\ page = [hostname |-> <<"b", ".", "i", "o">>, search |-> NoParams,
               pathname |-> <<>>, dom |-> <<>>]
    /\ resolverConfigs = <<>>
    /\ pinned = <<>>
    /\ current = detectNow(<<>>, <<>>, page).ctx
    /\ listeners = {}
    /\ moPending = FALSE
    /\ called = {}
    /\ lastOp = Op("load", FALSE)
    /\ held = <<>>

StoreAtRest ==
    /\ records = knowledgeSeed
    /\ fuse = knowledgeSeed
    /\ initPc = "reading"
    /\ db = {}
    /\ writes = <<>>
    /\ storeOut = Out("new", <<>>, <<>>, 0, <<>>)
    /\ initialized = TRUE
    /\ reads = 1
    /\ overlapped = FALSE

AuditAtRest ==
    /\ cache = [k \in AuditPairs |-> 0]
    /\ hydrated = FALSE
    /\ clock = 1
    /\ auditDb = {}
    /\ calls = [c \in CallIds |-> IdleCall]
    /\ scans = 0
    /\ audited = [k \in AuditPairs |-> [logged |-> 0, got |-> 0]]

UiAtRest == InitCapture /\ InitPalette /\ InitSubscribers /\ InitHistory

\* the live update controller on a page
Init == InitCtx /\ StoreAtRest /\ AuditAtRest /\ UiAtRest

Next ==
    \/ \E u \in Urls : Navigate(u) /\ UNCHANGED <<storeVars, auditVars, uiVars>>
    \/ HashChange /\ UNCHANGED <<storeVars, auditVars, uiVars>>
    \/ \E d \in Doms : MutateDom(d) /\ UNCHANGED <<storeVars, auditVars, uiVars>>
    \/ MutationCallback /\ UNCHANGED <<storeVars, auditVars, uiVars>>
    \/ \E cfgs \in ConfigDocs : ConfigChange(cfgs) /\ UNCHANGED <<storeVars, auditVars, uiVars>>
    \/ \E req \in PinRequests :
          setPinnedContext(req[1], req[2]) /\ UNCHANGED <<storeVars, auditVars, uiVars>>
    \/ clearPinnedContext /\ UNCHANGED <<storeVars, auditVars, uiVars>>
    \/ \E l \in ListenerIds : subscribeContext(l) /\ UNCHANGED <<storeVars, auditVars, uiVars>>
    \/ \E l \in ListenerIds : unsubscribe(l) /\ UNCHANGED <<storeVars, auditVars, uiVars>>

Spec == Init /\ [][Next]_vars

\* the knowledge store
InitStoreSpec == CtxAtRest /\ InitStore /\ AuditAtRest /\ UiAtRest

NextStore ==
    \/ HydrateResolve /\ UNCHANGED <<ctxVars, auditVars, uiVars>>
    \/ HydrateFail /\ UNCHANGED <<ctxVars, auditVars, uiVars>>
    \/ init /\ UNCHANGED <<ctxVars, auditVars, uiVars>>
    \/ \E pack \in Packs : loadPack(pack) /\ UNCHANGED <<ctxVars, auditVars, uiVars>>
    \/ WriteCommit /\ UNCHANGED <<ctxVars, auditVars, uiVars>>
    \/ WriteFail /\ UNCHANGED <<ctxVars, auditVars, uiVars>>
    \/ \E q \in Queries : Search(q) /\ UNCHANGED <<ctxVars, auditVars, uiVars>>
    \/ \E ctx \in StoreCtxs : ResolveContext(ctx) /\ UNCHANGED <<ctxVars, auditVars, uiVars>>

SpecStore == InitStoreSpec /\ [][NextStore]_vars

\* the knowledge store on an event loop that runs every continuation that is
\* ready: a read that can resolve, a write that can commit
\* the controller with a reader that keeps a reference to a published context
NextHold ==
    \/ \E u \in Urls : Navigate(u) /\ UNCHANGED <<storeVars, auditVars, uiVars>>
    \/ \E cfgs \in ConfigDocs : ConfigChange(cfgs) /\ UNCHANGED <<storeVars, auditVars, uiVars>>
    \/ \E req \in PinRequests :
          setPinnedContext(req[1], req[2]) /\ UNCHANGED <<storeVars, auditVars, uiVars>>
    \/ clearPinnedContext /\ UNCHANGED <<storeVars, auditVars, uiVars>>
    \/ \E l \in ListenerIds : subscribeContext(l) /\ UNCHANGED <<storeVars, auditVars, uiVars>>
    \/ detectContext /\ UNCHANGED <<storeVars, auditVars, uiVars>>
    \/ \E l \in ListenerIds : Retain(l) /\ UNCHANGED <<storeVars, auditVars, uiVars>>

SpecHold == Init /\ [][NextHold]_vars

\* the inline trigger on a page: typing, the debounce timer, responses
InitCaptureSpec == CtxAtRest /\ StoreAtRest /\ AuditAtRest /\ UiAtRest

NextCapture ==
    \/ \E text \in Texts : handleInput(text) /\ UNCHANGED <<ctxVars, storeVars, auditVars, paletteVars, subscriberVars, historyVars>>
    \/ checkForTrigger /\ UNCHANGED <<ctxVars, storeVars, auditVars, paletteVars, subscriberVars, historyVars>>
    \/ \E req \in 1..MaxRequests, outcome \in Outcomes :
          respond(req, outcome) /\ UNCHANGED <<ctxVars, storeVars, auditVars, paletteVars, subscriberVars, historyVars>>

SpecCapture == InitCaptureSpec /\ [][NextCapture]_vars

\* the palette over the audit log, within one reading of the clock
InitPaletteSpec == CtxAtRest /\ StoreAtRest /\ InitAudit /\ UiAtRest

NextPalette ==
    \/ \E idx \in 1..Len(PaletteRecords) :
          setHighlight(idx) /\ UNCHANGED <<ctxVars, storeVars, captureVars, subscriberVars, historyVars>>
    \/ \E c \in CallIds : loadReveals(c) /\ UNCHANGED <<ctxVars, storeVars, captureVars, subscriberVars, historyVars>>
    \/ \E c \in CallIds : ScanRead(c) /\ UNCHANGED <<ctxVars, storeVars, uiVars>>
    \/ \E c \in CallIds : loadRevealsResume(c) /\ UNCHANGED <<ctxVars, storeVars, captureVars, subscriberVars, historyVars>>
    \/ \E c \in CallIds : loadRevealsFail(c) /\ UNCHANGED <<ctxVars, storeVars, captureVars, subscriberVars, historyVars>>
    \/ \E c \in CallIds, i \in 1..3 :
          toggleReveal(c, i) /\ UNCHANGED <<ctxVars, storeVars, captureVars, subscriberVars, historyVars>>
    \/ \E c \in CallIds : AuditWrite(c) /\ UNCHANGED <<ctxVars, storeVars, uiVars>>
    \/ \E c \in CallIds : toggleRevealResume(c) /\ UNCHANGED <<ctxVars, storeVars, captureVars, subscriberVars, historyVars>>
    \/ \E c \in CallIds : toggleRevealCaught(c) /\ UNCHANGED <<ctxVars, storeVars, captureVars, subscriberVars, historyVars>>

SpecPalette == InitPaletteSpec /\ [][NextPalette]_vars

\* the controller with two subscribers whose callbacks may pin or unpin
NextReentrant ==
    \/ \E l \in SubscriberIds :
          subscribeInOrder(l) /\ UNCHANGED <<storeVars, auditVars, captureVars, paletteVars, historyVars>>
    \/ \E req \in PinRequests, re \in Reactions :
          setPinnedContextReentrant(req[1], req[2], re)
          /\ UNCHANGED <<storeVars, auditVars, captureVars, paletteVars, historyVars>>
    \/ \E re \in Reactions :
          clearPinnedContextReentrant(re)
          /\ UNCHANGED <<storeVars, auditVars, captureVars, paletteVars, historyVars>>
    \/ \E cfgs \in ConfigDocs, re \in Reactions :
          ConfigChangeReentrant(cfgs, re)
          /\ UNCHANGED <<storeVars, auditVars, captureVars, paletteVars, historyVars>>

SpecReentrant == Init /\ [][NextReentrant]_vars

\* the placeholder history of the background script
InitHistorySpec ==
    /\ CtxAtRest /\ StoreAtRest /\ AuditAtRest
    /\ InitCapture /\ InitPalette /\ InitSubscribers /\ InitHistoryStored

NextHistory ==
    \/ \E s \in SaveIds, key \in HistoryKeys, value \in HistoryValues :
          saveToPlaceholderHistory(s, key, value)
          /\ UNCHANGED <<ctxVars, storeVars, auditVars, captureVars, paletteVars, subscriberVars>>
    \/ \E s \in SaveIds :
          saveAfterGet(s)
          /\ UNCHANGED <<ctxVars, storeVars, auditVars, captureVars, paletteVars, subscriberVars>>
    \/ \E s \in SaveIds :
          saveAfterSet(s)
          /\ UNCHANGED <<ctxVars, storeVars, auditVars, captureVars, paletteVars, subscriberVars>>
    \/ \E s \in SaveIds :
          saveRejected(s)
          /\ UNCHANGED <<ctxVars, storeVars, auditVars, captureVars, paletteVars, subscriberVars>>
    \/ \E key \in HistoryKeys :
          getPlaceholderHistory(key)
          /\ UNCHANGED <<ctxVars, storeVars, auditVars, captureVars, paletteVars, subscriberVars>>

SpecHistory == InitHistorySpec /\ [][NextHistory]_vars

SpecStoreLive ==
    /\ InitStoreSpec
    /\ [][NextStore]_vars
    /\ WF_vars(HydrateResolve /\ UNCHANGED <<ctxVars, auditVars, uiVars>>)
    /\ WF_vars(WriteCommit /\ UNCHANGED <<ctxVars, auditVars, uiVars>>)

\* the audit log, its calls interleaving at their awaits
InitAuditSpec == CtxAtRest /\ StoreAtRest /\ InitAudit /\ UiAtRest

NextAudit ==
    \/ Tick /\ UNCHANGED <<ctxVars, storeVars, uiVars>>
    \/ \E c \in CallIds, pair \in AuditPairs :
          getLastRevealCall(c, pair) /\ UNCHANGED <<ctxVars, storeVars, uiVars>>
    \/ \E c \in CallIds : ScanRead(c) /\ UNCHANGED <<ctxVars, storeVars, uiVars>>
    \/ \E c \in CallIds : ScanFail(c) /\ UNCHANGED <<ctxVars, storeVars, uiVars>>
    \/ \E c \in CallIds : getLastRevealResume(c) /\ UNCHANGED <<ctxVars, storeVars, uiVars>>
    \/ \E c \in CallIds, pair \in AuditPairs :
          logRevealCall(c, pair) /\ UNCHANGED <<ctxVars, storeVars, uiVars>>
    \/ \E c \in CallIds : AuditWrite(c) /\ UNCHANGED <<ctxVars, storeVars, uiVars>>
    \/ \E c \in CallIds : AuditWriteFail(c) /\ UNCHANGED <<ctxVars, storeVars, uiVars>>
    \/ \E c \in CallIds : logRevealResume(c) /\ UNCHANGED <<ctxVars, storeVars, uiVars>>

SpecAudit == InitAuditSpec /\ [][NextAudit]_vars

\* the audit log when the caller awaits each call before issuing the next
NextAuditSeq ==
    \/ Tick /\ UNCHANGED <<ctxVars, storeVars, uiVars>>
    \/ \E c \in CallIds, pair \in AuditPairs :
          Quiet /\ getLastRevealCall(c, pair) /\ UNCHANGED <<ctxVars, storeVars, uiVars>>
    \/ \E c \in CallIds : ScanRead(c) /\ UNCHANGED <<ctxVars, storeVars, uiVars>>
    \/ \E c \in CallIds : ScanFail(c) /\ UNCHANGED <<ctxVars, storeVars, uiVars>>
    \/ \E c \in CallIds : getLastRevealResume(c) /\ UNCHANGED <<ctxVars, storeVars, uiVars>>
    \/ \E c \in CallIds, pair \in AuditPairs :
          Quiet /\ logRevealCall(c, pair) /\ UNCHANGED <<ctxVars, storeVars, uiVars>>
    \/ \E c \in CallIds : AuditWrite(c) /\ UNCHANGED <<ctxVars, storeVars, uiVars>>
    \/ \E c \in CallIds : AuditWriteFail(c) /\ UNCHANGED <<ctxVars, storeVars, uiVars>>
    \/ \E c \in CallIds : logRevealResume(c) /\ UNCHANGED <<ctxVars, storeVars, uiVars>>

SpecAuditSeq == InitAuditSpec /\ [][NextAuditSeq]_vars

\* ------------------------------------------------------------------------
\* Properties
\* ------------------------------------------------------------------------

\* a fresh automatic detection of the current page
FreshDetection == detectNow(<<>>, resolverConfigs, page)

\* C1: while a context is pinned, whatever navigation, DOM-mutation or
\* config-change events were handled since setPinnedContext(key, reason),
\* detectContext() has key = the pinned key, confidence = high and
\* evidence = [reason].
C1_PinnedContextIsKept ==
    pinned # <<>> =>
        /\ current.key = pinned[1].bookingId
        /\ current.confidence = "high"
        /\ current.evidence = pinned[1].evidence
        /\ Len(current.evidence) = 1

\* C1 witness: an event was handled while pinned, on a page whose automatic
\* detection would have produced another key
C1_Witness ==
    /\ pinned # <<>>
    /\ lastOp.op \in {"navigate", "hashchange", "mutation", "config"}
    /\ ~FreshDetection.threw
    /\ FreshDetection.ctx.key # current.key
    /\ current.evidence = <<<<"reason", "manual">>>>

\* C2: a recompute trigger (navigation, hashchange, DOM-mutation callback) calls
\* a listener only if the freshly derived key or confidence differs from the
\* published one; when both are equal no listener is called and the published
\* context stays as it was.
C2_PublishOnlyOnChange ==
    [][lastOp'.op \in {"navigate", "hashchange", "mutation"} =>
        LET next == detectNow(pinned, resolverConfigs, page')
            same == /\ ~next.threw
                    /\ next.ctx.key = current.key
                    /\ next.ctx.confidence = current.confidence
        IN /\ same => (called' = {} /\ current' = current)
           /\ called' # {} => (~next.threw /\ ~same)]_vars

\* C2 witness: with a subscriber registered, a trigger was handled on a page
\* whose detection differs from the published context in its candidates only,
\* and no listener was called
C2_Witness ==
    /\ lastOp = Op("mutation", FALSE)
    /\ listeners # {}
    /\ called = {}
    /\ pinned = <<>>
    /\ ~FreshDetection.threw
    /\ FreshDetection.ctx.apartmentKeyCandidates # current.apartmentKeyCandidates

\* the outcomes of the strategies of a fresh detection
FreshOutcomes ==
    strategiesFor(resolverConfigs, pickConfig(resolverConfigs, page.hostname), page)

\* some strategy returned a result with a non-empty bookingId
SomeStrategyYieldsBookingId ==
    \E i \in 1..Len(FreshOutcomes) :
        FreshOutcomes[i].status = "ok" /\ Truthy(FreshOutcomes[i].bookingId)

\* some strategy returned a bookingId that is non-empty after trimming
SomeStrategyYieldsNonBlankBookingId ==
    \E i \in 1..Len(FreshOutcomes) :
        /\ FreshOutcomes[i].status = "ok"
        /\ Truthy(FreshOutcomes[i].bookingId)
        /\ trim(FreshOutcomes[i].bookingId) # <<>>

\* the confidenceRules of the selected config, <<>> when there is none
SelectedRules ==
    LET c == pickConfig(resolverConfigs, page.hostname)
    IN IF c > 0 THEN resolverConfigs[c].confidenceRules ELSE <<>>

\* C3 as stated: for every configuration, a strategy yielding a non-empty
\* bookingId makes the resolved confidence high.
C3_BookingIdAlwaysHigh ==
    (~FreshDetection.threw /\ SomeStrategyYieldsBookingId)
        => FreshDetection.ctx.confidence = "high"

\* C3 amended: when a strategy yields a bookingId that is non-empty after
\* trimming, the resolved confidence is high unless the selected config declares
\* a confidenceRule whose required fields are populated; then it is the grade of
\* the first such rule.
C3_BookingIdHighUnlessRule ==
    (~FreshDetection.threw /\ SomeStrategyYieldsNonBlankBookingId) =>
        LET ctx == FreshDetection.ctx
            ok(i) == ruleSatisfied(SelectedRules[i], ctx)
        IN /\ Truthy(ctx.bookingId)
           /\ (\A i \in 1..Len(SelectedRules) : ~ok(i)) => ctx.confidence = "high"
           /\ \A i \in 1..Len(SelectedRules) :
                (ok(i) /\ \A j \in 1..(i - 1) : ~ok(j))
                    => ctx.confidence = SelectedRules[i].confidence

\* C3 witness: a bookingId and candidates were both found under a config
\* without rules, and the confidence is high
C3_Witness ==
    /\ ~FreshDetection.threw
    /\ SomeStrategyYieldsNonBlankBookingId
    /\ Len(resolverConfigs) > 0
    /\ SelectedRules = <<>>
    /\ Len(FreshDetection.ctx.apartmentKeyCandidates) > 0
    /\ FreshDetection.ctx.confidence = "high"

\* C8 as stated: a strategy that throws is a miss; no exception leaves the
\* executor and detectNow returns a context.
C8_ThrowingStrategyIsMiss ==
    (\E i \in 1..Len(FreshOutcomes) : FreshOutcomes[i].status = "throw")
        => ~FreshDetection.threw

\* C9: when clearPinnedContext() has returned, nothing is pinned and
\* detectContext() equals a fresh automatic detection of the current page.
C9_ClearPinnedRecomputes ==
    lastOp = Op("clearPinned", FALSE) =>
        /\ pinned = <<>>
        /\ ~FreshDetection.threw
        /\ current = FreshDetection.ctx

\* C9 witness: clearPinnedContext() returned on a page where detection finds
\* candidates but no bookingId, so the published context is not a pinned one
C9_Witness ==
    /\ lastOp = Op("clearPinned", FALSE)
    /\ current.app # sPinned
    /\ current.confidence = "medium"
    /\ Len(current.apartmentKeyCandidates) > 0

\* C10 as stated: clearPinnedContext() with nothing pinned never throws and
\* publishes the fresh detection, so that a second call on an unchanged page
\* leaves the published context the same.
C10_ClearUnpinnedNeverThrows ==
    [][(pinned = <<>> /\ lastOp'.op = "clearPinned") =>
        /\ ~lastOp'.threw
        /\ current' = detectNow(<<>>, resolverConfigs, page).ctx]_vars

\* does the record carry a key equal to bookingId up to case
HasKeyEqual(rec, bookingId) ==
    \E k \in 1..Len(rec.keys) : toLowerCase(rec.keys[k]) = toLowerCase(bookingId)

\* the position of a record in the current record set
PositionOf(rec) == CHOOSE i \in 1..Len(records) : records[i] = rec

\* C4: resolveContext(ctx) with ctx.bookingId set, when some record has a key
\* equal to it up to case, returns exactly the records with such a key, in
\* record-set order, and calls the fuzzy search not once, whatever the
\* candidates are.
C4_ExactMatchIsAuthoritative ==
    (/\ storeOut.op = "resolveContext"
     /\ Truthy(storeOut.arg.bookingId)
     /\ \E i \in 1..Len(records) : HasKeyEqual(records[i], storeOut.arg.bookingId))
    => LET res == storeOut.result
       IN /\ storeOut.searches = 0
          /\ \A i \in 1..Len(res) :
                /\ \E j \in 1..Len(records) : records[j] = res[i]
                /\ HasKeyEqual(res[i], storeOut.arg.bookingId)
          /\ \A j \in 1..Len(records) :
                HasKeyEqual(records[j], storeOut.arg.bookingId)
                    => \E i \in 1..Len(res) : res[i] = records[j]
          /\ \A i, j \in 1..Len(res) :
                i < j => PositionOf(res[i]) < PositionOf(res[j])

\* C4 witness: one record matches bookingId exactly while the fuzzy search of
\* the first candidate would have returned another record ahead of it
C4_Witness ==
    /\ storeOut.op = "resolveContext"
    /\ Truthy(storeOut.arg.bookingId)
    /\ Len(storeOut.result) = 1
    /\ Len(storeOut.arg.apartmentKeyCandidates) > 0
    /\ LET fuzzy == fuseSearch(fuse, storeOut.arg.apartmentKeyCandidates[1])
       IN Len(fuzzy) > 1 /\ fuzzy[1] # storeOut.result[1]

\* C5: right after loadPack(newRecords) was called, before its persistence
\* write resolves, search("") returns the first 5 records of newRecords in
\* their order and nothing else.
C5_SearchAfterLoadPack ==
    storeOut.op = "loadPack" =>
        LET res == search(records, fuse, <<>>)
            new == storeOut.arg
        IN /\ Len(res) = (IF Len(new) < 5 THEN Len(new) ELSE 5)
           /\ \A i \in 1..Len(res) : res[i] = new[i]

\* C5 witness: a pack of more than 5 records was loaded over another set and
\* its write is still in flight
C5_Witness ==
    /\ storeOut.op = "loadPack"
    /\ Len(storeOut.arg) > 5
    /\ writes # <<>>
    /\ writes[Len(writes)].recs = storeOut.arg
    /\ db # putAll({}, storeOut.arg)
    /\ Len(search(records, fuse, <<>>)) = 5

\* a getLastReveal call for the pair resolves in this step
GetResolves(pair) ==
    \/ \E c \in CallIds :
          calls[c].pc = "scanned" /\ calls[c].pair = pair /\ calls'[c].op = "idle"
    \/ hydrated /\ calls' = calls /\ audited'[pair].got # audited[pair].got

\* C6: when the caller awaits each call, a getLastReveal that follows resolved
\* logReveal calls for the same (recordId, fieldKey) returns the timestamp of the
\* latest of them, and the results of successive getLastReveal calls for the
\* pair never decrease.
C6_LastRevealIsLatest ==
    [][\A pair \in AuditPairs :
        GetResolves(pair) =>
            /\ audited'[pair].got >= audited[pair].got
            /\ audited[pair].logged # 0 =>
                  (audited'[pair].got # 0 /\ audited'[pair].got = audited[pair].logged)]_vars

\* C6 witness: two logReveal calls at different instants resolved for a pair and
\* a getLastReveal after them returned the later instant
C6_Witness ==
    \E pair \in AuditPairs :
        /\ Quiet
        /\ audited[pair].logged = 2
        /\ audited[pair].got = 2
        /\ \E e \in auditDb : e.id = <<pair, 1>>
        /\ \E e \in auditDb : e.id = <<pair, 2>>

\* C7 as stated: the persisted audit log is scanned at most once, also when a
\* getLastReveal is issued while the first call's scan is pending.
C7_LogScannedOnce == scans <= 1

\* C11: subscribeContext(listener) calls that listener, and only it, with the
\* current context before it returns; every operation that publishes a context
\* calls every subscribed listener; a listener that is not subscribed, after
\* its unsubscribe handle was called, is never called.
C11_SubscriberDelivery ==
    [][/\ lastOp'.op = "subscribe" =>
            /\ \E l \in ListenerIds : called' = {l} /\ l \in listeners'
            /\ current' = current
       /\ (lastOp'.op \in {"config", "setPinned", "clearPinned"} /\ ~lastOp'.threw)
            => called' = listeners'
       /\ current' # current => called' = listeners'
       /\ called' \subseteq listeners']_vars

\* C11 witness: a subscribed listener was called by a later publication
C11_Witness ==
    /\ lastOp.op \in {"navigate", "mutation", "config", "setPinned", "clearPinned"}
    /\ ~lastOp.threw
    /\ listeners # {}
    /\ called = listeners

\* the candidate strings the strategies that fired returned
RawCandidates ==
    UNION {{FreshOutcomes[i].apartmentKeyCandidates[j] :
                j \in 1..Len(FreshOutcomes[i].apartmentKeyCandidates)} :
           i \in {k \in 1..Len(FreshOutcomes) : FreshOutcomes[k].status = "ok"}}

\* C12: the resolved apartmentKeyCandidates holds the trim+lowercase form of
\* every candidate string the strategies returned, blanks left out, each form
\* once: every entry is its own normal form and no two entries are equal.
C12_CandidatesNormalizedOnce ==
    ~FreshDetection.threw =>
        LET cands == FreshDetection.ctx.apartmentKeyCandidates
        IN /\ \A i \in 1..Len(cands) :
                Truthy(cands[i]) /\ normalize(cands[i]) = cands[i]
           /\ \A i, j \in 1..Len(cands) : i # j => cands[i] # cands[j]
           /\ {cands[i] : i \in 1..Len(cands)}
                = {normalize(r) : r \in RawCandidates} \ {Undefined}

\* C12 witness: the strategies returned more distinct strings than there are
\* normal forms, and two normal forms were kept
C12_Witness ==
    /\ ~FreshDetection.threw
    /\ Cardinality(RawCandidates) > Len(FreshDetection.ctx.apartmentKeyCandidates)
    /\ Len(FreshDetection.ctx.apartmentKeyCandidates) >= 2

\* the strategies, by position, that returned a non-empty bookingId
YieldingBookingId ==
    {i \in 1..Len(FreshOutcomes) :
        FreshOutcomes[i].status = "ok" /\ Truthy(FreshOutcomes[i].bookingId)}

\* the strategies that returned a bookingId that is non-empty after trimming
YieldingNonBlankBookingId ==
    {i \in YieldingBookingId : trim(FreshOutcomes[i].bookingId) # <<>>}

\* the least member of a non-empty set of positions
First(positions) == CHOOSE i \in positions : \A j \in positions : i <= j

\* C13 as stated: the aggregate bookingId is the normalized value of the first
\* strategy that yields a non-empty bookingId.
C13_FirstBookingIdWins ==
    ~FreshDetection.threw =>
        IF YieldingBookingId = {} THEN FreshDetection.ctx.bookingId = Undefined
        ELSE FreshDetection.ctx.bookingId
                = normalize(FreshOutcomes[First(YieldingBookingId)].bookingId)

\* C13 amended: the aggregate bookingId is the normalized value of the first
\* strategy, in execution order, whose bookingId is non-empty after trimming;
\* it is unset when there is no such strategy.
C13_FirstNonBlankBookingIdWins ==
    ~FreshDetection.threw =>
        IF YieldingNonBlankBookingId = {} THEN FreshDetection.ctx.bookingId = Undefined
        ELSE FreshDetection.ctx.bookingId
                = normalize(FreshOutcomes[First(YieldingNonBlankBookingId)].bookingId)

\* C13 witness: two strategies yielded bookingIds with different normal forms
\* and the aggregate holds the earlier one
C13_Witness ==
    /\ ~FreshDetection.threw
    /\ \E i, j \in YieldingNonBlankBookingId :
          /\ i < j
          /\ normalize(FreshOutcomes[i].bookingId) # normalize(FreshOutcomes[j].bookingId)
          /\ i = First(YieldingNonBlankBookingId)
          /\ FreshDetection.ctx.bookingId = normalize(FreshOutcomes[i].bookingId)

\* resolveContext found no record with a key equal to ctx.bookingId
NoExactMatch ==
    ~(/\ Truthy(storeOut.arg.bookingId)
      /\ \E i \in 1..Len(records) : HasKeyEqual(records[i], storeOut.arg.bookingId))

\* C14 as stated: without an exact bookingId match, resolveContext returns
\* records with pairwise different recordIds and never more than 3 of them.
C14_AtMostThreeDistinct ==
    (storeOut.op = "resolveContext" /\ NoExactMatch) =>
        /\ Len(storeOut.result) <= 3
        /\ \A i, j \in 1..Len(storeOut.result) :
              i # j => storeOut.result[i].recordId # storeOut.result[j].recordId

\* C15: in every state a caller or subscriber can observe, the index is built
\* from exactly the current record set; what a notification delivers is the
\* current record set; search and resolveContext return records of that set
\* only.
C15_IndexMatchesRecords ==
    /\ fuse = records
    /\ storeOut.notified # <<>> => storeOut.notified[1] = records
    /\ storeOut.op \in {"search", "resolveContext"} =>
          \A i \in 1..Len(storeOut.result) :
              \E j \in 1..Len(records) : records[j] = storeOut.result[i]

\* C15 witness: after hydration replaced the seed set by the persisted rows, a
\* search through the index returned records
C15_Witness ==
    /\ storeOut.op = "search"
    /\ trim(storeOut.arg) # <<>>
    /\ Len(storeOut.result) > 0
    /\ initPc = "done"
    /\ records = sortedByKey(putAll({}, PackSmall))

\* C16: loadPack(records) swaps the record set and the index and notifies the
\* subscribers with the new set before anything is persisted, its write being
\* only queued; when that write fails the record set, the index and the
\* persisted table stay as they were and the call resumes past its catch.
C16_LoadPackSurvivesWriteFailure ==
    [][/\ storeOut'.op = "loadPack" =>
            /\ records' = storeOut'.arg
            /\ fuse' = storeOut'.arg
            /\ storeOut'.notified = <<storeOut'.arg>>
            /\ db' = db
            /\ writes' = Append(writes, [by |-> "loadPack", recs |-> storeOut'.arg])
       /\ storeOut'.op = "writeFailed" =>
            /\ records' = records
            /\ fuse' = fuse
            /\ db' = db
            /\ writes' = Tail(writes)]_vars

\* C16 witness: the write of a loaded pack failed; the pack is the in-memory
\* set while the persisted table holds other rows
C16_Witness ==
    /\ storeOut.op = "writeFailed"
    /\ records = storeOut.arg
    /\ records # knowledgeSeed
    /\ records # <<>>
    /\ db # putAll({}, records)

\* C17 as stated: init() eventually notifies the subscribers once hydration
\* resolves, with persisted rows as with an empty table that it seeds; a
\* failed read or a failed seeding write is no resolution.
C17_InitEventuallyNotifies ==
    <>(\/ storeOut.op = "init" /\ storeOut.notified # <<>>
       \/ storeOut.op \in {"initFailed", "seedFailed"})

\* C19: when the hydration read or the seeding write fails, init() ends past
\* its catch, and the record set and the index stay what they were, the
\* bundled seed set unless a pack was loaded meanwhile.
C19_InitFailureKeepsSeed ==
    [][storeOut'.op \in {"initFailed", "seedFailed"} =>
            /\ initPc' = "done"
            /\ records' = records
            /\ fuse' = fuse
            /\ db' = db]_vars

\* C19 witness: the seeding write failed, nothing is persisted and the store
\* holds the seed set
C19_Witness ==
    /\ storeOut.op = "seedFailed"
    /\ initPc = "done"
    /\ db = {}
    /\ records = knowledgeSeed
    /\ fuse = knowledgeSeed

\* C18 as stated: no getLastReveal or logReveal promise rejects, also when the
\* scan or the write fails.
C18_AuditFailuresAreSwallowed ==
    \A c \in CallIds : calls[c].pc # "rejected"

\* a logReveal call's write commits in this step
LogWriteCommits ==
    \E c \in CallIds : calls[c].pc = "writing" /\ calls'[c].pc = "written"

\* C20 as stated: every successful logReveal adds one event to the persisted
\* log and no step changes or removes an event that is stored.
C20_EveryLogAddsOneEvent ==
    [][/\ auditDb \subseteq auditDb'
       /\ LogWriteCommits => Cardinality(auditDb') = Cardinality(auditDb) + 1]_vars

\* no strategy of a fresh detection returned a result
NoStrategyFired ==
    \A i \in 1..Len(FreshOutcomes) : FreshOutcomes[i].status = "null"

\* C24: with no confidenceRules in effect the resolved confidence is high when
\* bookingId is set, else medium when there are candidates, else low or none;
\* when no strategy fired bookingId is unset, the candidates are empty and the
\* confidence is low or none.
C24_DefaultConfidence ==
    (~FreshDetection.threw /\ SelectedRules = <<>>) =>
        LET ctx == FreshDetection.ctx
        IN /\ Truthy(ctx.bookingId) => ctx.confidence = "high"
           /\ (~Truthy(ctx.bookingId) /\ Len(ctx.apartmentKeyCandidates) > 0)
                => ctx.confidence = "medium"
           /\ (~Truthy(ctx.bookingId) /\ Len(ctx.apartmentKeyCandidates) = 0)
                => ctx.confidence \in {"low", "none"}
           /\ NoStrategyFired =>
                /\ ctx.bookingId = Undefined
                /\ ctx.apartmentKeyCandidates = <<>>
                /\ ctx.confidence \in {"low", "none"}

\* C24 witness: under a config without rules only candidates were found and
\* the confidence is medium
C24_Witness ==
    /\ ~FreshDetection.threw
    /\ Len(resolverConfigs) > 0
    /\ SelectedRules = <<>>
    /\ ~Truthy(FreshDetection.ctx.bookingId)
    /\ Len(FreshDetection.ctx.apartmentKeyCandidates) > 0
    /\ FreshDetection.ctx.confidence = "medium"

\* the rules of the selected config, by position, whose required fields are
\* populated in the resolved aggregate
SatisfiedRules ==
    {i \in 1..Len(SelectedRules) : ruleSatisfied(SelectedRules[i], FreshDetection.ctx)}

\* the default grade of the resolved aggregate
DefaultConfidence ==
    IF Truthy(FreshDetection.ctx.bookingId) THEN "high"
    ELSE IF Len(FreshDetection.ctx.apartmentKeyCandidates) > 0 THEN "medium"
    ELSE "low"

\* C25: when the selected config declares confidenceRules, the confidence is
\* that of the first rule in list order whose required fields are populated,
\* whatever later rules say; when no rule is satisfied it is the default.
C25_FirstSatisfiedRuleWins ==
    (~FreshDetection.threw /\ SelectedRules # <<>>) =>
        IF SatisfiedRules = {}
        THEN FreshDetection.ctx.confidence = DefaultConfidence
        ELSE FreshDetection.ctx.confidence = SelectedRules[First(SatisfiedRules)].confidence

\* C25 witness: two rules of different grades are satisfied and the grade is
\* the first one's
C25_Witness ==
    /\ ~FreshDetection.threw
    /\ \E i, j \in SatisfiedRules :
          /\ i = First(SatisfiedRules)
          /\ i < j
          /\ SelectedRules[i].confidence # SelectedRules[j].confidence
          /\ FreshDetection.ctx.confidence = SelectedRules[i].confidence

\* C26 as stated: the bookingId of every published context, detected or
\* pinned, equals its own trim+lowercase form.
C26_PublishedBookingIdNormalized ==
    Truthy(current.bookingId) => normalize(current.bookingId) = current.bookingId

\* the evidence of the strategies that fired, from position i on, in order
RECURSIVE EvidenceFrom(_)
EvidenceFrom(i) ==
    IF i > Len(FreshOutcomes) THEN <<>>
    ELSE (IF FreshOutcomes[i].status = "ok" THEN FreshOutcomes[i].evidence ELSE <<>>)
            \o EvidenceFrom(i + 1)

\* C30: the resolved evidence is the concatenation, in execution order, of the
\* evidence of every strategy that returned a result, also of one whose
\* bookingId was not adopted.
C30_EvidenceOfEveryFiring ==
    ~FreshDetection.threw => FreshDetection.ctx.evidence = EvidenceFrom(1)

\* C30 witness: two strategies yielded a bookingId, the second was not
\* adopted, and the evidence holds the tags of both
C30_Witness ==
    /\ ~FreshDetection.threw
    /\ \E i, j \in YieldingNonBlankBookingId :
          /\ i < j
          /\ FreshOutcomes[j].apartmentKeyCandidates = <<>>
          /\ Len(FreshDetection.ctx.evidence) >= 2
          /\ \E k \in 1..Len(FreshDetection.ctx.evidence) :
                FreshDetection.ctx.evidence[k] = FreshOutcomes[j].evidence[1]

\* C27: search with an empty or whitespace-only query returns the first 5
\* records of the current set in set order; with a non-empty query it returns
\* at most 10 records, all of them members of the current set.
C27_SearchIsCapped ==
    storeOut.op = "search" =>
        IF trim(storeOut.arg) = <<>>
        THEN /\ Len(storeOut.result) = (IF Len(records) < 5 THEN Len(records) ELSE 5)
             /\ \A i \in 1..Len(storeOut.result) : storeOut.result[i] = records[i]
        ELSE /\ Len(storeOut.result) <= 10
             /\ \A i \in 1..Len(storeOut.result) :
                   \E j \in 1..Len(records) : records[j] = storeOut.result[i]

\* C27 witness: a non-empty query that more than 10 records match returned 10
C27_Witness ==
    /\ storeOut.op = "search"
    /\ trim(storeOut.arg) # <<>>
    /\ Len(storeOut.result) = 10
    /\ Cardinality({j \in 1..Len(records) : fuseScore(records[j], storeOut.arg) < 2}) > 10

\* the recordIds of a list of records
IdsOf(recs) == {recs[i].recordId : i \in 1..Len(recs)}

\* C28: replaceAllRecords(R) followed by loadAllRecords() round-trips: for R
\* with distinct recordIds the loaded set has the size and the recordIds of R,
\* and no record stored before the replace remains unless R holds it.
C28_ReplaceThenLoadRoundTrips ==
    [][(storeOut'.op = "written"
            /\ Cardinality(IdsOf(storeOut'.arg)) = Len(storeOut'.arg)) =>
        /\ Len(sortedByKey(db')) = Len(storeOut'.arg)
        /\ IdsOf(sortedByKey(db')) = IdsOf(storeOut'.arg)
        /\ \A r \in db :
              (\A i \in 1..Len(storeOut'.arg) : storeOut'.arg[i] # r) => r \notin db']_vars

\* C28 witness: a replace of several records committed; what loads back has
\* their recordIds, in key order rather than in the order written
C28_Witness ==
    /\ storeOut.op = "written"
    /\ Len(storeOut.arg) > 1
    /\ IdsOf(sortedByKey(db)) = IdsOf(storeOut.arg)
    /\ sortedByKey(db) # storeOut.arg

\* C22: the current context is replaced as a whole: what a reader sees
\* through a reference it got from detectContext() or as a subscriber stays
\* what it saw when it got it, whatever pin, clearPinned, a recompute trigger
\* or a config change publish afterwards.
C22_HeldContextNeverChanges ==
    held # <<>> => held[1].now = held[1].seen

\* C22 witness: after the reference was kept another context was published;
\* the reference is no longer the current object and shows the old value
C22_Witness ==
    /\ held # <<>>
    /\ ~held[1].alias
    /\ current # held[1].seen
    /\ held[1].now = held[1].seen
    /\ lastOp.op \in {"setPinned", "clearPinned", "navigate", "config"}

\* C23: in-flight lookups are neither cancelled nor sequenced: a response
\* that is delivered is applied even when a newer request has been sent, so
\* the overlay shows the results of the response that arrived last.
C23_LastResponseWins ==
    (captureOut.op = "response" /\ captureOut.outcome \in {"ok", "searchError"}) =>
        overlay = <<captureOut.results>>

\* C23 witness: the response of an older request arrived after a newer request
\* was sent and answered; the overlay shows the older query's results, which
\* are not those of the latest request
C23_Witness ==
    /\ captureOut.op = "response"
    /\ captureOut.outcome = "ok"
    /\ captureOut.req < Len(sent)
    /\ Len(sent) \notin inflight
    /\ overlay = <<performSearch(sent[captureOut.req])>>
    /\ overlay # <<performSearch(sent[Len(sent)])>>

\* a logReveal call for the pair is still in flight
LogInFlight(pair) ==
    \E c \in CallIds : calls[c].op = "log" /\ calls[c].pair = pair

\* C21 as stated: whenever the palette shows a secret field with
\* auditOnReveal unmasked, once no logReveal for it is in flight, an audit
\* event for the record's recordId and the field's key is in the audit log.
C21_RevealedSecretIsAudited ==
    \A i \in 1..Len(rendered) :
        LET e == activeRecordAt(highlight).fields[i]
            pair == <<activeRecordAt(highlight).recordId, e.key>>
        IN (/\ e.field.type = "secret"
            /\ e.field.auditOnReveal
            /\ rendered[i].text # Mask
            /\ ~LogInFlight(pair))
           => \E ev \in auditDb : ev.recordId = pair[1] /\ ev.fieldKey = pair[2]

\* C29: a secret field renders as its value when revealed and as the fixed
\* mask otherwise; text and link fields render the same whatever revealed is;
\* shouldMask is true exactly for a secret that is not revealed.  The rows on
\* screen follow: a secret row shows its value exactly when it is revealed.
C29_FieldHelpers ==
    \A i \in 1..Len(rendered) :
        LET f == activeRecordAt(highlight).fields[i].field
        IN /\ \A rv \in BOOLEAN : shouldMask(f, rv) = (f.type = "secret" /\ ~rv)
           /\ f.type = "secret" =>
                /\ renderFieldValue(f, TRUE) = f.value
                /\ renderFieldValue(f, FALSE) = Mask
                /\ rendered[i].text = (IF f.value \in revealed THEN f.value ELSE Mask)
           /\ f.type = "text" =>
                /\ renderFieldValue(f, TRUE) = f.value
                /\ renderFieldValue(f, FALSE) = f.value
                /\ rendered[i].text = f.value
           /\ f.type = "link" =>
                /\ renderFieldValue(f, TRUE) = renderFieldValue(f, FALSE)
                /\ rendered[i].text = f.value.label \o <<" ", "(">> \o f.value.url \o <<")">>

\* C29 witness: the active record has a link row, a text row and a secret row
\* that was revealed and shows its value
C29_Witness ==
    \E i, j, k \in 1..Len(rendered) :
        /\ activeRecordAt(highlight).fields[i].field.type = "secret"
        /\ activeRecordAt(highlight).fields[i].field.value \in revealed
        /\ rendered[i].text = activeRecordAt(highlight).fields[i].field.value
        /\ activeRecordAt(highlight).fields[j].field.type = "text"
        /\ activeRecordAt(highlight).fields[k].field.type = "link"

\* the strategies of the config selected for the current page, <<>> for none
SelectedStrategies ==
    LET c == pickConfig(resolverConfigs, page.hostname)
    IN IF c > 0 THEN resolverConfigs[c].strategies ELSE <<>>

\* the hostname contains one of the known domain snippets
OnKnownHost ==
    \/ includes(page.hostname, <<"c", "o", "n", "d", "u", "i", "t", ".", "a", "i">>)
    \/ includes(page.hostname,
                <<"a", "p", "p", ".", "c", "o", "n", "d", "u", "i", "t", ".", "a", "i">>)

\* C31: the strategies detectNow runs are those of the selected config, in
\* their order, followed by the built-in heuristics: all five on a host that
\* matches a known domain snippet, only the first two (query parameters, data
\* attributes) on any other host.
C31_ConfigStrategiesThenBuiltins ==
    LET n == Len(SelectedStrategies)
    IN /\ Len(FreshOutcomes) = n + (IF OnKnownHost THEN 5 ELSE 2)
       /\ \A i \in 1..n : FreshOutcomes[i] = configStrategy(SelectedStrategies[i], page)
       /\ FreshOutcomes[n + 1] = queryParamStrategy(page)
       /\ FreshOutcomes[n + 2] = dataAttrStrategy(page)
       /\ OnKnownHost =>
            /\ FreshOutcomes[n + 3] = embeddedJsonStrategy(page)
            /\ FreshOutcomes[n + 4] = textCandidateStrategy(page)
            /\ FreshOutcomes[n + 5] = urlSegmentStrategy(page)

\* C31 witness: on a host outside the known ones a config strategy and a
\* built-in one both fired; the published evidence starts with the config's
C31_Witness ==
    /\ pinned = <<>>
    /\ ~OnKnownHost
    /\ Len(SelectedStrategies) > 0
    /\ Len(FreshOutcomes) = Len(SelectedStrategies) + 2
    /\ \E i \in 1..Len(SelectedStrategies), j \in 1..2 :
          /\ FreshOutcomes[i].status = "ok"
          /\ \A k \in 1..(i - 1) : FreshOutcomes[k].status = "null"
          /\ FreshOutcomes[Len(SelectedStrategies) + j].status = "ok"
          /\ FreshOutcomes[Len(SelectedStrategies) + j].evidence # FreshOutcomes[i].evidence
          /\ current.evidence # <<>>
          /\ current.evidence[1] = FreshOutcomes[i].evidence[1]

\* the configs, by position, with a hosts entry contained in the hostname
HostMatches ==
    {i \in 1..Len(resolverConfigs) :
        \E h \in 1..Len(resolverConfigs[i].hosts) :
            includes(page.hostname, resolverConfigs[i].hosts[h])}

\* the configs, by position, whose app id is contained in the hostname
AppMatches ==
    {i \in 1..Len(resolverConfigs) : includes(page.hostname, resolverConfigs[i].app)}

\* C32: pickConfig returns the first config with a hosts entry that is a
\* substring of the hostname; if none, the first config whose app id is a
\* substring of the hostname; if none, the first config; undefined only when
\* no configs are loaded.  The resolved app is the returned config's.
C32_PickConfigOrder ==
    LET c == pickConfig(resolverConfigs, page.hostname)
    IN /\ c = (IF HostMatches # {} THEN First(HostMatches)
               ELSE IF AppMatches # {} THEN First(AppMatches)
               ELSE IF Len(resolverConfigs) > 0 THEN 1 ELSE 0)
       /\ (c = 0) <=> (resolverConfigs = <<>>)
       /\ (c > 0 /\ ~FreshDetection.threw) =>
             FreshDetection.ctx.app = resolverConfigs[c].app

\* C32 witness: the config returned is the second of two, by its hosts list,
\* although the first one is there
C32_Witness ==
    /\ Len(resolverConfigs) = 2
    /\ HostMatches = {2}
    /\ pickConfig(resolverConfigs, page.hostname) = 2
    /\ ~FreshDetection.threw
    /\ FreshDetection.ctx.app = resolverConfigs[2].app

\* the records of a list, order left aside
RecordSet(recs) == {recs[i] : i \in 1..Len(recs)}

\* C33 as stated: a loadPack(R) issued while the hydration read of the
\* constructor is in flight (the in-memory set is then no longer the seed) is
\* not undone when that read completes: getAll() still returns the records of
\* R and the index is built from them.
C33_HydrationKeepsLoadedPack ==
    [][(initPc = "reading" /\ records # knowledgeSeed /\ initPc' # "reading") =>
        /\ RecordSet(records') = RecordSet(records)
        /\ RecordSet(fuse') = RecordSet(records)]_vars

\* C34 as stated: for any interleaving of logReveal and getLastReveal at
\* their awaits, once logReveal(r, f) has resolved with timestamp t every
\* getLastReveal(r, f) that resolves later returns a timestamp not earlier
\* than t, also when its hydration scan started before that logReveal.
C34_GetNeverOlderThanResolvedLog ==
    [][\A pair \in AuditPairs :
        GetResolves(pair) => audited'[pair].got >= audited[pair].logged]_vars

\* C36 as stated: in Detecting state, once a navigation or DOM-mutation
\* trigger has been processed and no mutation is pending, detectContext() has
\* the bookingId and the apartmentKeyCandidates of a fresh detection of the
\* current page.
C36_TriggersLeaveFreshCandidates ==
    (/\ pinned = <<>>
     /\ lastOp.op \in {"navigate", "hashchange", "mutation"}
     /\ ~lastOp.threw
     /\ ~moPending
     /\ ~FreshDetection.threw)
    => /\ current.bookingId = FreshDetection.ctx.bookingId
       /\ current.apartmentKeyCandidates = FreshDetection.ctx.apartmentKeyCandidates

\* C37 as stated: when two loadPack calls overlap, once the writes have
\* completed, the last of them committed, the persisted table holds the
\* in-memory record set, which is the records of the loadPack issued last.
C37_OverlappingPacksConverge ==
    (overlapped /\ writes = <<>> /\ storeOut.op = "written") =>
        /\ RecordSet(sortedByKey(db)) = RecordSet(records)
        /\ RecordSet(records) = RecordSet(storeOut.arg)

\* C39: init() calls loadAllRecords() at most once for a store instance,
\* however often it is called and whether the first call is still reading,
\* has completed or has failed.
C39_HydrationReadOnce ==
    /\ reads <= 1
    /\ storeOut.op = "initCall" => (initialized /\ reads = 1)

\* C39 witness: init() was called again after the constructor's call had
\* ended, and the read count is still 1
C39_Witness ==
    /\ storeOut.op = "initCall"
    /\ initPc = "done"
    /\ reads = 1

\* C35: when a subscriber calls setPinnedContext or clearPinnedContext from
\* inside its callback, then after the outermost notification has returned
\* the last context given to every subscriber is the one detectContext()
\* returns.
C35_ReentrantNotifyConverges ==
    (reentered /\ ~lastOp.threw) =>
        \A l \in listeners : delivered[l] = <<current>>

\* a history of the shape saveToPlaceholderHistory keeps
WellShaped(history) ==
    /\ Len(history) <= MAX_HISTORY_PER_KEY
    /\ \A i, j \in 1..Len(history) : history[i] = history[j] => i = j

\* C38: under every key the stored placeholder history holds at most 5
\* values and no value twice, the value of the save that completed last
\* comes first, getPlaceholderHistory returns such a history, and a save of
\* an empty or whitespace-only value changes neither the storage nor the
\* calls in flight.
C38_HistoryKeepsShape ==
    /\ [](/\ \A k \in StorageKeys : WellShaped(historyOrEmpty(stored[k]))
          /\ historyOut.op = "saved" =>
                Head(historyOrEmpty(stored[historyOut.key])) = historyOut.value
          /\ historyOut.op = "history" => WellShaped(historyOut.result))
    /\ [][historyOut'.op = "skipped" => (stored' = stored /\ saves' = saves)]_vars

\* a sixth value has been saved: slice dropped the oldest and the new value
\* is in front of the five kept
C38_Witness ==
    /\ historyOut.op = "saved"
    /\ historyOut.cut
    /\ Len(historyOrEmpty(stored[historyOut.key])) = MAX_HISTORY_PER_KEY
    /\ Head(historyOrEmpty(stored[historyOut.key])) = historyOut.value

====
